---- MODULE Spec2Model ----
(***************************************************************************)
(* Orbit: satellite registry, safety shield and launcher.                  *)
(*                                                                         *)
(* Python strings are modelled as sequences of fragments (a fragment is a  *)
(* run of characters), so that substring tests, stripping and path         *)
(* components are computed and not assumed.  A pathlib.Path is the         *)
(* sequence of its parts: Path("/System/x") is <<"/", "System", "x">> and  *)
(* Path("~/Documents") is <<"~", "Documents">>.                            *)
(***************************************************************************)
EXTENDS Integers, Sequences, FiniteSets, TLC

(***************************************************************************)
(* Bounds of the model.                                                    *)
(***************************************************************************)
\* largest max_retries a Launcher of the retry specification is built with
MaxRetries == 3
\* successful register calls in one run of the registry
MaxRegistrations == 3
\* entries add_protected_path puts on a shield's list beyond those it was built with
MaxAddedPaths == 3

\* the longest list a caller passes to register_constellation
MaxListLen == 3

\* the largest max_retries of the launcher the threads share
MaxThreadRetries == 2

(***************************************************************************)
(* orbit.core.satellite.SafetyLevel and orbit.core.shield.ShieldAction.    *)
(* Enum members are written with their class so that a plain string        *)
(* ("allow") is a different value from the member (ShieldAction.ALLOW),    *)
(* as it is in Python: ShieldAction is a plain Enum, not a str subclass.   *)
(***************************************************************************)
SAFE == "SafetyLevel.SAFE"
MODERATE == "SafetyLevel.MODERATE"
DANGEROUS == "SafetyLevel.DANGEROUS"
CRITICAL == "SafetyLevel.CRITICAL"
SafetyLevel == {SAFE, MODERATE, DANGEROUS, CRITICAL}

ALLOW == "ShieldAction.ALLOW"
DENY == "ShieldAction.DENY"
REQUIRE_CONFIRMATION == "ShieldAction.REQUIRE_CONFIRMATION"
ShieldAction == {ALLOW, DENY, REQUIRE_CONFIRMATION}

\* Optional[T]: None is the empty set, a value v is {v}
None == {}
Some(v) == {v}
Get(opt) == CHOOSE v \in opt : TRUE

(***************************************************************************)
(* SafetyShield class-level defaults.                                      *)
(***************************************************************************)
DEFAULT_RULES ==
    (SAFE :> ALLOW) @@ (MODERATE :> REQUIRE_CONFIRMATION)
    @@ (DANGEROUS :> REQUIRE_CONFIRMATION) @@ (CRITICAL :> DENY)

\* a list of protected paths that has the filesystem root as well
PROTECTED_PATHS_WITH_ROOT ==
    << <<"/">>, <<"/", "System">>, <<"/", "Library">>, <<"/", "usr">>, <<"/", "bin">>,
       <<"/", "sbin">>, <<"/", "etc">>, <<"/", "var">> >>

\* initial value of the class attribute SafetyShield.PROTECTED_PATHS
PROTECTED_PATHS_DEFAULT ==
    << <<"/", "System">>, <<"/", "Library">>, <<"/", "usr">>, <<"/", "bin">>,
       <<"/", "sbin">>, <<"/", "etc">>, <<"/", "var">> >>

DANGEROUS_COMMANDS ==
    << <<"rm -rf /">>, <<"dd if=/dev/zero">>, <<":(){ :|:& };:">>,
       <<"mkfs">>, <<"chmod 000">>, <<"chown root">> >>

(***************************************************************************)
(* Rule tables callers pass to SafetyShield(rules=...).                    *)
(***************************************************************************)
\* rules={}
EmptyRules == [l \in {} |-> ALLOW]
\* examples/custom_safety.py, "Strict mode": the values are plain strings
StrictRulesExample ==
    (SAFE :> "allow") @@ (MODERATE :> "deny")
    @@ (DANGEROUS :> "deny") @@ (CRITICAL :> "deny")
\* the same table written with ShieldAction members
StrictRules ==
    (SAFE :> ALLOW) @@ (MODERATE :> DENY) @@ (DANGEROUS :> DENY) @@ (CRITICAL :> DENY)
\* "permissive": every level allowed
PermissiveRules == [l \in SafetyLevel |-> ALLOW]
\* a table that maps only some levels
PartialRules == (SAFE :> ALLOW) @@ (DANGEROUS :> REQUIRE_CONFIRMATION)
\* a table that asks for confirmation at every level
ConfirmRules == [l \in SafetyLevel |-> REQUIRE_CONFIRMATION]

RuleTables ==
    {EmptyRules, StrictRulesExample, StrictRules, PermissiveRules, PartialRules,
     ConfirmRules, DEFAULT_RULES}

(***************************************************************************)
(* pathlib: expanduser, resolve, is_relative_to, on the host's filesystem. *)
(***************************************************************************)
\* the user's home directory and the process's working directory
Home == <<"/", "Users", "u">>
Cwd == <<"/", "Users", "u", "work">>

\* symbolic links of the host (macOS: /etc -> private/etc)
IsSymlink(p) == p = <<"/", "etc">>
ReadLink(p) == IF p = <<"/", "etc">> THEN <<"/", "private", "etc">> ELSE p

\* Path.expanduser(): a leading "~" part is replaced by the home directory
expanduser(p) ==
    IF p # <<>> /\ Head(p) = "~" THEN Home \o Tail(p) ELSE p

\* the parent of an absolute path; the parent of the root is the root
Parent(p) == IF Len(p) <= 1 THEN p ELSE SubSeq(p, 1, Len(p) - 1)

RECURSIVE Walk(_, _)
\* follow the remaining parts from an absolute, already resolved prefix
Walk(done, rest) ==
    IF rest = <<>> THEN done
    ELSE LET c == Head(rest)
             next == Append(done, c)
         IN IF c = ".." THEN Walk(Parent(done), Tail(rest))
            ELSE IF IsSymlink(next) THEN Walk(ReadLink(next), Tail(rest))
            ELSE Walk(next, Tail(rest))

\* Path.resolve(): absolute, symlinks followed, ".." eliminated
resolve(p) ==
    IF p # <<>> /\ Head(p) = "/" THEN Walk(<<"/">>, Tail(p)) ELSE Walk(Cwd, p)

\* PurePath.is_relative_to(other): other's parts are a prefix of p's parts
is_relative_to(p, other) ==
    /\ Len(other) <= Len(p)
    /\ SubSeq(p, 1, Len(other)) = other

\* Python's "needle in haystack" on strings
Contains(haystack, needle) ==
    \E i \in 1..(Len(haystack) + 1) :
        /\ i + Len(needle) - 1 <= Len(haystack)
        /\ SubSeq(haystack, i, i + Len(needle) - 1) = needle

Range(s) == {s[i] : i \in 1..Len(s)}

(***************************************************************************)
(* Exceptions (orbit.core.exceptions) and Python's built-in ones.  "at" is *)
(* the execution attempt that raised it (0: not raised by an execution);   *)
(* it stands for the identity of the exception object.                     *)
(***************************************************************************)
Exc(type, msg) ==
    [type |-> type, msg |-> msg, script |-> None, return_code |-> None, at |-> 0]
NoError == Exc("None", "")

\* AppleScriptError(message, script=None, return_code=None)
AppleScriptError(msg, script, return_code) ==
    [type |-> "AppleScriptError", msg |-> msg, script |-> script,
     return_code |-> return_code, at |-> 0]

\* the classes derived from OrbitError
OrbitErrors ==
    {"ShieldError", "AppleScriptError", "AppleScriptTimeoutError",
     "AppleScriptPermissionError", "AppleScriptSyntaxError",
     "SatelliteNotFoundError", "ParameterValidationError", "TemplateRenderingError"}

(***************************************************************************)
(* Satellite and SatelliteParameter.  A parameter's enum is None or the    *)
(* list of its allowed values, as their set; a template is the set of      *)
(* parameter names it refers to and whether it is well-formed.             *)
(***************************************************************************)
SatelliteParameter(name, required, enum) ==
    [name |-> name, required |-> required, enum |-> enum]

ChoiceEnum == {<<"a">>, <<"b">>}

Satellite(name, category, parameters, safety_level, vars, result_parser) ==
    [name |-> name, category |-> category, parameters |-> parameters,
     safety_level |-> safety_level,
     applescript_template |-> [vars |-> vars, well_formed |-> TRUE],
     result_parser |-> result_parser]

\* the satellites registered at start-up: one of each safety level, as in
\* the fixtures of tests/test_shield.py, with parameters as in
\* tests/core/test_satellite.py
safe_sat ==
    Satellite("safe_sat", "test", <<>>, SAFE, {}, "None")
moderate_sat ==
    Satellite("moderate_sat", "test",
              <<SatelliteParameter("choice", TRUE, Some(ChoiceEnum))>>,
              MODERATE, {"choice"}, "parser")
dangerous_sat ==
    Satellite("dangerous_sat", "files",
              <<SatelliteParameter("path", FALSE, None),
                SatelliteParameter("choice", FALSE, Some(ChoiceEnum))>>,
              DANGEROUS, {"path", "choice"}, "None")
critical_sat ==
    Satellite("critical_sat", "test",
              <<SatelliteParameter("command", FALSE, None)>>,
              CRITICAL, {"command"}, "None")

all_satellites == <<safe_sat, moderate_sat, dangerous_sat, critical_sat>>

NoSatellite == Satellite("", "", <<>>, SAFE, {}, "None")

\* Satellite.validate_parameters: the error it raises, NoError when it returns True
validate_parameters(sat, parameters) ==
    LET ps == sat.parameters
        missing == {i \in 1..Len(ps) :
                       ps[i].required /\ ps[i].name \notin DOMAIN parameters}
        badenum == {i \in 1..Len(ps) :
                       \* "if param.enum": neither None nor an empty list
                       /\ ps[i].enum # None /\ Get(ps[i].enum) # {}
                       /\ ps[i].name \in DOMAIN parameters
                       /\ parameters[ps[i].name] \notin Get(ps[i].enum)}
    IN IF missing # {}
       THEN Exc("ParameterValidationError",
                "Missing required parameter")
       ELSE IF badenum # {}
       THEN Exc("ParameterValidationError",
                "must be one of")
       ELSE NoError

(***************************************************************************)
(* Invocation inputs.                                                      *)
(***************************************************************************)
PathValues ==
    { <<"/", "System", "Library", "x">>,    \* nested under /System
      <<"/", "Users", "..", "usr">>,        \* resolves to /usr itself
      <<"~", "Documents">>,                 \* the user's Documents
      <<"/", "etc", "hosts">> }             \* resolves to /private/etc/hosts
CommandValues ==
    { <<"sudo ", "rm -rf /", "home">>,      \* contains "rm -rf /"
      <<"ls ", "-l">> }
ChoiceValues == { <<"a">>, <<"z">> }

ParamKeys == {"path", "command", "choice"}
ValuesOf(k) ==
    IF k = "path" THEN PathValues
    ELSE IF k = "command" THEN CommandValues
    ELSE ChoiceValues

\* the parameter dicts callers pass
ParamDicts ==
    UNION { {f \in [K -> PathValues \cup CommandValues \cup ChoiceValues] :
                \A k \in K : f[k] \in ValuesOf(k)} : K \in SUBSET ParamKeys }

SatelliteNames == {all_satellites[i].name : i \in 1..Len(all_satellites)} \cup {"unknown"}

(***************************************************************************)
(* SafetyShield.  A shield object is a record; its protected_paths field   *)
(* is a reference: "CLASS" when __init__ bound it to the class attribute   *)
(* SafetyShield.PROTECTED_PATHS, "OWN" when it is the caller's list, kept  *)
(* in own_paths.  rules_arg is no attribute of the object: it records the  *)
(* rules argument the constructor was called with.                         *)
(***************************************************************************)
\* SafetyShield.__init__
SafetyShield(rules, confirmation_callback, protected_paths, dangerous_commands) ==
    [rules |-> IF rules = None \/ DOMAIN Get(rules) = {}
               THEN DEFAULT_RULES ELSE Get(rules),
     rules_arg |-> rules,
     confirmation_callback |-> confirmation_callback,
     protected_paths |-> IF protected_paths = None \/ Get(protected_paths) = <<>>
                         THEN "CLASS" ELSE "OWN",
     own_paths |-> IF protected_paths = None THEN <<>> ELSE Get(protected_paths),
     dangerous_commands |-> IF dangerous_commands = None \/ Get(dangerous_commands) = <<>>
                            THEN DANGEROUS_COMMANDS ELSE Get(dangerous_commands)]

\* _check_path without expanduser().resolve(): the raw parts are compared
_check_path_unresolved(protected_paths, path) ==
    \E i \in 1..Len(protected_paths) : is_relative_to(path, protected_paths[i])

\* SafetyShield._check_path: TRUE when it raises ShieldError
_check_path(protected_paths, path) ==
    LET resolved_path == resolve(expanduser(path))
    IN \E i \in 1..Len(protected_paths) :
           is_relative_to(resolved_path, protected_paths[i])

\* _check_command with command.startswith(dangerous) for "dangerous in command"
_check_command_prefix(dangerous_commands, command) ==
    \E i \in 1..Len(dangerous_commands) :
        /\ Len(dangerous_commands[i]) <= Len(command)
        /\ SubSeq(command, 1, Len(dangerous_commands[i])) = dangerous_commands[i]

\* SafetyShield._check_command: TRUE when it raises ShieldError
_check_command(dangerous_commands, command) ==
    \E i \in 1..Len(dangerous_commands) : Contains(command, dangerous_commands[i])

\* dict.get(key, default)
DictGet(d, key, default) == IF key \in DOMAIN d THEN d[key] ELSE default

\* validate that calls the callback and does not look at what it returns
validate_answer_ignored(self, protected_paths, satellite, parameters, answer) ==
    LET action == DictGet(self.rules, satellite.safety_level, DENY)
        Raise(msg, calls) == [exc |-> Exc("ShieldError", msg), callback_calls |-> calls]
    IN IF "path" \in DOMAIN parameters /\ _check_path(protected_paths, parameters["path"])
       THEN Raise("Protected path detected", 0)
       ELSE IF /\ "command" \in DOMAIN parameters
               /\ _check_command(self.dangerous_commands, parameters["command"])
       THEN Raise("Dangerous command detected", 0)
       ELSE IF action = DENY
       THEN Raise("blocked due to safety level", 0)
       ELSE IF action = REQUIRE_CONFIRMATION
       THEN IF self.confirmation_callback
            THEN [exc |-> NoError, callback_calls |-> 1]
            ELSE Raise("requires confirmation but no callback provided", 0)
       ELSE [exc |-> NoError, callback_calls |-> 0]

\* validate that asks the callback, when there is one, for every action but DENY
validate_confirm_allowed(self, protected_paths, satellite, parameters, answer) ==
    LET action == DictGet(self.rules, satellite.safety_level, DENY)
        Raise(msg, calls) == [exc |-> Exc("ShieldError", msg), callback_calls |-> calls]
    IN IF "path" \in DOMAIN parameters /\ _check_path(protected_paths, parameters["path"])
       THEN Raise("Protected path detected", 0)
       ELSE IF /\ "command" \in DOMAIN parameters
               /\ _check_command(self.dangerous_commands, parameters["command"])
       THEN Raise("Dangerous command detected", 0)
       ELSE IF action = DENY
       THEN Raise("blocked due to safety level", 0)
       ELSE IF self.confirmation_callback
       THEN IF ~answer
            THEN Raise("User denied the mission", 1)
            ELSE [exc |-> NoError, callback_calls |-> 1]
       ELSE IF action = REQUIRE_CONFIRMATION
       THEN Raise("requires confirmation but no callback provided", 0)
       ELSE [exc |-> NoError, callback_calls |-> 0]

\* validate that applies the rule action before the path and command checks
validate_rule_first(self, protected_paths, satellite, parameters, answer) ==
    LET action == DictGet(self.rules, satellite.safety_level, DENY)
        Raise(msg, calls) == [exc |-> Exc("ShieldError", msg), callback_calls |-> calls]
    IN IF action = DENY
       THEN Raise("blocked due to safety level", 0)
       ELSE IF action = REQUIRE_CONFIRMATION /\ ~self.confirmation_callback
       THEN Raise("requires confirmation but no callback provided", 0)
       ELSE IF action = REQUIRE_CONFIRMATION /\ ~answer
       THEN Raise("User denied the mission", 1)
       ELSE IF "path" \in DOMAIN parameters /\ _check_path(protected_paths, parameters["path"])
       THEN Raise("Protected path detected", IF action = REQUIRE_CONFIRMATION THEN 1 ELSE 0)
       ELSE IF /\ "command" \in DOMAIN parameters
               /\ _check_command(self.dangerous_commands, parameters["command"])
       THEN Raise("Dangerous command detected",
                  IF action = REQUIRE_CONFIRMATION THEN 1 ELSE 0)
       ELSE [exc |-> NoError,
             callback_calls |-> IF action = REQUIRE_CONFIRMATION THEN 1 ELSE 0]

\* SafetyShield.validate on the shield self whose protected list is
\* protected_paths; answer is what the confirmation callback returns if it
\* is called.  The result is the error raised (NoError: True is returned)
\* and the number of calls of the callback.
validate(self, protected_paths, satellite, parameters, answer) ==
    LET action == DictGet(self.rules, satellite.safety_level, DENY)
        Raise(msg, calls) == [exc |-> Exc("ShieldError", msg), callback_calls |-> calls]
    IN IF "path" \in DOMAIN parameters /\ _check_path(protected_paths, parameters["path"])
       THEN Raise("Protected path detected", 0)
       ELSE IF /\ "command" \in DOMAIN parameters
               /\ _check_command(self.dangerous_commands, parameters["command"])
       THEN Raise("Dangerous command detected", 0)
       ELSE IF action = DENY
       THEN Raise("blocked due to safety level", 0)
       ELSE IF action = REQUIRE_CONFIRMATION
       THEN IF self.confirmation_callback
            THEN IF ~answer
                 THEN Raise("User denied the mission", 1)
                 ELSE [exc |-> NoError, callback_calls |-> 1]
            ELSE Raise("requires confirmation but no callback provided", 0)
       ELSE [exc |-> NoError, callback_calls |-> 0]

(***************************************************************************)
(* Launcher.                                                               *)
(***************************************************************************)
\* jinja2 is an install requirement (setup.py), so the import succeeds
HAS_JINJA2 == TRUE

\* default of Launcher.__init__'s max_retries
DefaultMaxRetries == 3

\* Launcher.__init__; safety_shield is "mc" (the MissionControl's shield
\* object) or "None"
Launcher(safety_shield, retry_on_failure, max_retries) ==
    [safety_shield |-> safety_shield, retry_on_failure |-> retry_on_failure,
     max_retries |-> max_retries]

\* the retry loop gives up after the first failure
reraises_always(self, attempt) == TRUE

\* the retry loop goes on to its last attempt whatever retry_on_failure says
reraises_on_last_attempt(self, attempt) == attempt = self.max_retries - 1

\* Launcher.launch, except clause of the retry loop: the error of this
\* attempt is raised again (last attempt, or no retry)
reraises(self, attempt) ==
    attempt = self.max_retries - 1 \/ ~self.retry_on_failure

\* the rendered script: the template with the values put in
Rendered(template, parameters) ==
    [template |-> template,
     values |-> [v \in template.vars |-> DictGet(parameters, v, <<>>)]]
NoScript == Rendered([vars |-> {}, well_formed |-> FALSE], <<>>)

\* Launcher._render_template: the script, or the error raised
_render_template(template, parameters) ==
    IF ~HAS_JINJA2
    THEN IF ~(template.vars \subseteq DOMAIN parameters)
         THEN [exc |-> Exc("TemplateRenderingError", "Missing parameter"),
               script |-> NoScript]
         ELSE IF ~template.well_formed
         THEN [exc |-> Exc("TemplateRenderingError", "Template rendering failed"),
               script |-> NoScript]
         ELSE [exc |-> NoError, script |-> Rendered(template, parameters)]
    ELSE IF ~template.well_formed
         THEN [exc |-> Exc("TemplateRenderingError", "Template rendering failed"),
               script |-> NoScript]
         \* jinja2 renders an undefined variable as the empty string
         ELSE [exc |-> NoError, script |-> Rendered(template, parameters)]

\* what subprocess.run(["osascript", "-e", script], timeout=...) does
Completed(returncode, stdout, stderr) ==
    [kind |-> "completed", returncode |-> returncode, stdout |-> stdout, stderr |-> stderr]
TimeoutExpired == [kind |-> "timeout", returncode |-> 0, stdout |-> <<>>, stderr |-> <<>>]
Outputs == { <<" ", "hello", "\n">>, <<"[1, 2]">> }
ProcessOutcomes ==
    {Completed(0, out, <<>>) : out \in Outputs}
    \cup {Completed(1, <<>>, <<"execution error", "\n">>), TimeoutExpired}

Whitespace == {" ", "\n"}
RECURSIVE lstrip(_)
lstrip(s) == IF s # <<>> /\ Head(s) \in Whitespace THEN lstrip(Tail(s)) ELSE s
RECURSIVE rstrip(_)
rstrip(s) ==
    IF s # <<>> /\ s[Len(s)] \in Whitespace THEN rstrip(SubSeq(s, 1, Len(s) - 1)) ELSE s
\* str.strip()
strip(s) == rstrip(lstrip(s))

\* _execute_applescript that returns stdout as the process wrote it
_execute_applescript_untrimmed(script, proc) ==
    IF proc.kind = "timeout"
    THEN [exc |-> AppleScriptError("Script execution timed out", None, None),
          value |-> <<>>]
    ELSE IF proc.returncode # 0
    THEN [exc |-> AppleScriptError("Unexpected error: name 'satellite' is not defined",
                                   None, None),
          value |-> <<>>]
    ELSE [exc |-> NoError, value |-> proc.stdout]

\* Launcher._execute_applescript on what the process did: the output
\* returned, or the error raised
_execute_applescript(script, proc) ==
    IF proc.kind = "timeout"
    THEN [exc |-> AppleScriptError("Script execution timed out", None, None),
          value |-> <<>>]
    ELSE IF proc.returncode # 0
    \* format_error_with_hint(error_msg, satellite.name): no name satellite
    \* is bound in this method, the NameError is caught by except Exception
    THEN [exc |-> AppleScriptError("Unexpected error: name 'satellite' is not defined",
                                   None, None),
          value |-> <<>>]
    ELSE [exc |-> NoError, value |-> strip(proc.stdout)]

\* a result parser applied to the raw result
Parse(result) == <<"parsed">> \o result

(***************************************************************************)
(* State.                                                                  *)
(***************************************************************************)
VARIABLES
    PROTECTED_PATHS,  \* the class attribute SafetyShield.PROTECTED_PATHS (a list)
    safety_shield,    \* MissionControl.safety_shield
    launcher,         \* MissionControl.launcher
    _satellites,      \* Constellation._satellites: name -> Satellite
    _categories,      \* Constellation._categories: category -> list of names
    pc,               \* where the launch in progress stands ("idle": none)
    call,             \* the arguments of MissionControl.launch
    satellite,        \* launch: the satellite looked up
    script,           \* launch: the rendered script
    attempt,          \* launch: the retry loop's variable
    last_error,       \* launch: last_error
    result,           \* launch: result, None while unbound
    outcome,          \* how the launch ended: what it returned or raised
    log,              \* the calls the launch made so far, in order
    callback_calls,   \* the calls of the confirmation callback: arguments, answer
    runs,             \* what each osascript process of the launch did, in order
    registered_count,   \* history: register calls that returned
    unregistered_count, \* history: unregister calls that returned
    registered_at,      \* history: name -> the satellite of the last register call
                        \* that returned, its number, and whether no unregister
                        \* of the name has returned since
    last_call,          \* history: the last call made on the registry or the shield
    threads             \* thread -> the local variables of its call of launch

history == <<registered_count, unregistered_count, registered_at, last_call>>

vars ==
    <<PROTECTED_PATHS, safety_shield, launcher, _satellites, _categories, pc, call,
      satellite, script, attempt, last_error, result, outcome, log, callback_calls,
      runs, history, threads>>

\* the objects the launches share
shared ==
    <<PROTECTED_PATHS, safety_shield, launcher, _satellites, _categories, history>>

\* all but the frame of the launch of the main thread
config == <<shared, threads>>

\* the frame of the launch of the main thread
frame ==
    <<pc, call, satellite, script, attempt, last_error, result, outcome, log,
      callback_calls, runs>>

\* the list the shield's protected_paths attribute refers to
protected_paths_of(self) ==
    IF self.protected_paths = "CLASS" THEN PROTECTED_PATHS ELSE self.own_paths

NoCall == [satellite_name |-> "", parameters |-> <<>>, bypass_shield |-> FALSE]
Pending == [status |-> "pending", exc |-> NoError, value |-> <<>>]
Returned(v) == [status |-> "returned", exc |-> NoError, value |-> v]
Raised(e) == [status |-> "raised", exc |-> e, value |-> <<>>]

\* Constellation after register_constellation(sats) on an empty registry
Registered(sats) ==
    [n \in {sats[i].name : i \in 1..Len(sats)} |->
        sats[CHOOSE i \in 1..Len(sats) : sats[i].name = n]]
RECURSIVE NamesOf(_, _)
NamesOf(sats, category) ==
    IF sats = <<>> THEN <<>>
    ELSE (IF Head(sats).category = category THEN <<Head(sats).name>> ELSE <<>>)
         \o NamesOf(Tail(sats), category)
CategoryIndex(sats) ==
    [c \in {sats[i].category : i \in 1..Len(sats)} |-> NamesOf(sats, c)]

\* the history after register_constellation(sats) on an empty registry
RegisteredAt(sats) ==
    [n \in {sats[i].name : i \in 1..Len(sats)} |->
        LET i == CHOOSE i \in 1..Len(sats) : sats[i].name = n
        IN [satellite |-> sats[i], time |-> i, live |-> TRUE]]

\* no call on the registry or the shield yet
NoRegistryCall ==
    [op |-> "", satellite |-> NoSatellite, satellites |-> <<>>, name |-> "",
     path |-> <<>>, exc |-> NoError]

\* a list of paths a caller passes as protected_paths
CustomProtected == << <<"/", "Users", "u", "Documents">> >>

\* the threads that call launch beside the main thread
Threads == {"t1", "t2"}

\* the local variables of a call of launch in a thread; pc "idle": no call
NoFrame ==
    [pc |-> "idle", call |-> NoCall, satellite |-> NoSatellite, script |-> NoScript,
     attempt |-> 0, last_error |-> NoError, result |-> None, outcome |-> Pending,
     callback_calls |-> <<>>, runs |-> <<>>]

\* no launch in progress
Idle ==
    /\ pc = "idle"
    /\ call = NoCall
    /\ satellite = NoSatellite
    /\ script = NoScript
    /\ attempt = 0
    /\ last_error = NoError
    /\ result = None
    /\ outcome = Pending
    /\ log = <<>>
    /\ callback_calls = <<>>
    /\ runs = <<>>
    /\ threads = [t \in Threads |-> NoFrame]

\* MissionControl() or MissionControl(safety_shield=...) builds its launcher
\* with its shield and the Launcher defaults; MissionControl(launcher=Launcher())
\* keeps the caller's launcher, which has no shield
InitMissionControl(shields, launchers) ==
    /\ PROTECTED_PATHS = PROTECTED_PATHS_DEFAULT
    /\ safety_shield \in shields
    /\ launcher \in launchers
    /\ _satellites = Registered(all_satellites)
    /\ _categories = CategoryIndex(all_satellites)
    /\ registered_count = Len(all_satellites)
    /\ unregistered_count = 0
    /\ registered_at = RegisteredAt(all_satellites)
    /\ last_call = NoRegistryCall
    /\ Idle

Shields ==
    {SafetyShield(r, cb, pp, None) :
        r \in {None} \cup {Some(t) : t \in RuleTables \ {DEFAULT_RULES}},
        cb \in BOOLEAN,
        pp \in {None, Some(CustomProtected)}}

Init ==
    InitMissionControl(Shields,
                       {Launcher(sh, FALSE, DefaultMaxRetries) : sh \in {"mc", "None"}})

(***************************************************************************)
(* MissionControl.launch and the steps of Launcher.launch.                 *)
(***************************************************************************)
\* launch that hands whatever the lookup gave to the launcher
MissionControl_launch_unchecked(satellite_name, parameters, bypass_shield) ==
    /\ pc = "idle"
    /\ call' = [satellite_name |-> satellite_name, parameters |-> parameters,
                bypass_shield |-> bypass_shield]
    /\ satellite' = IF satellite_name \in DOMAIN _satellites
                    THEN _satellites[satellite_name] ELSE NoSatellite
    /\ pc' = "validate_parameters"
    /\ UNCHANGED <<config, script, attempt, last_error, result, outcome, log,
                   callback_calls, runs>>

\* MissionControl.launch(satellite_name, parameters, bypass_shield): the lookup
MissionControl_launch(satellite_name, parameters, bypass_shield) ==
    /\ pc = "idle"
    /\ call' = [satellite_name |-> satellite_name, parameters |-> parameters,
                bypass_shield |-> bypass_shield]
    /\ IF satellite_name \in DOMAIN _satellites
       THEN /\ satellite' = _satellites[satellite_name]
            /\ pc' = "validate_parameters"
            /\ outcome' = outcome
       ELSE /\ satellite' = satellite
            /\ pc' = "done"
            /\ outcome' = Raised(Exc("SatelliteNotFoundError", "not found"))
    /\ UNCHANGED <<config, script, attempt, last_error, result, log, callback_calls, runs>>

\* launch that validates the parameters only when the shield is not bypassed
launch_validate_parameters_unless_bypass ==
    /\ pc = "validate_parameters"
    /\ LET e == validate_parameters(satellite, call.parameters)
       IN IF call.bypass_shield
          THEN pc' = "safety_check" /\ outcome' = outcome /\ log' = log
          ELSE /\ log' = Append(log, "validate_parameters")
               /\ IF e # NoError
                  THEN pc' = "done" /\ outcome' = Raised(e)
                  ELSE pc' = "safety_check" /\ outcome' = outcome
    /\ UNCHANGED <<config, call, satellite, script, attempt, last_error, result,
                   callback_calls, runs>>

\* Launcher.launch: satellite.validate_parameters(parameters)
launch_validate_parameters ==
    /\ pc = "validate_parameters"
    /\ log' = Append(log, "validate_parameters")
    /\ LET e == validate_parameters(satellite, call.parameters)
       IN IF e # NoError
          THEN pc' = "done" /\ outcome' = Raised(e)
          ELSE pc' = "safety_check" /\ outcome' = outcome
    /\ UNCHANGED <<config, call, satellite, script, attempt, last_error, result,
                   callback_calls, runs>>

\* Launcher.launch: if not bypass_shield and self.safety_shield: validate
launch_safety_check ==
    /\ pc = "safety_check"
    /\ IF ~call.bypass_shield /\ launcher.safety_shield # "None"
       THEN \E answer \in BOOLEAN :
               LET v == validate(safety_shield, protected_paths_of(safety_shield),
                                 satellite, call.parameters, answer)
                   called == [i \in 1..v.callback_calls |->
                                 [satellite |-> satellite, parameters |-> call.parameters,
                                  answer |-> answer]]
               IN /\ callback_calls' = callback_calls \o called
                  /\ IF v.exc # NoError
                     THEN /\ pc' = "done"
                          /\ outcome' = Raised(v.exc)
                          /\ log' = log \o <<"safety_shield.validate">>
                                         \o [i \in 1..v.callback_calls |->
                                                "confirmation_callback"]
                                         \o <<"validate raised">>
                     ELSE /\ pc' = "render"
                          /\ outcome' = outcome
                          /\ log' = log \o <<"safety_shield.validate">>
                                         \o [i \in 1..v.callback_calls |->
                                                "confirmation_callback"]
                                         \o <<"validate returned True">>
       ELSE pc' = "render" /\ UNCHANGED <<log, outcome, callback_calls>>
    /\ UNCHANGED <<config, call, satellite, script, attempt, last_error, result, runs>>

\* Launcher.launch: script = self._render_template(...)
launch_render_template ==
    /\ pc = "render"
    /\ log' = Append(log, "_render_template")
    /\ LET r == _render_template(satellite.applescript_template, call.parameters)
       IN IF r.exc # NoError
          THEN pc' = "done" /\ outcome' = Raised(r.exc) /\ script' = script
          ELSE pc' = "execute" /\ outcome' = outcome /\ script' = r.script
    /\ UNCHANGED <<config, call, satellite, attempt, last_error, result,
                   callback_calls, runs>>

\* a retry loop that goes back to the shield check before every new attempt
launch_execute_rechecks ==
    /\ pc = "execute"
    /\ attempt < launcher.max_retries
    /\ \E proc \in ProcessOutcomes :
          LET r == _execute_applescript(script, proc)
              e == [r.exc EXCEPT !.at = Len(runs) + 1]
          IN /\ runs' = Append(runs, proc)
             /\ log' = Append(log, "_execute_applescript")
             /\ IF r.exc = NoError
                THEN /\ result' = Some(r.value)
                     /\ pc' = "parse"
                     /\ UNCHANGED <<attempt, last_error, outcome>>
                ELSE /\ last_error' = e
                     /\ result' = result
                     /\ IF reraises(launcher, attempt)
                        THEN pc' = "done" /\ outcome' = Raised(e)
                             /\ attempt' = attempt
                        ELSE pc' = "safety_check" /\ outcome' = outcome
                             /\ attempt' = attempt + 1
    /\ UNCHANGED <<config, call, satellite, script, callback_calls>>

\* Launcher.launch: one iteration of "for attempt in range(self.max_retries)",
\* or the loop's end
launch_execute ==
    /\ pc = "execute"
    /\ IF attempt < launcher.max_retries
       THEN \E proc \in ProcessOutcomes :
               LET r == _execute_applescript(script, proc)
                   e == [r.exc EXCEPT !.at = Len(runs) + 1]
               IN /\ runs' = Append(runs, proc)
                  /\ log' = Append(log, "_execute_applescript")
                  /\ IF r.exc = NoError
                     THEN /\ result' = Some(r.value)
                          /\ pc' = "parse"
                          /\ UNCHANGED <<attempt, last_error, outcome>>
                     ELSE /\ last_error' = e
                          /\ result' = result
                          /\ IF reraises(launcher, attempt)
                             THEN pc' = "done" /\ outcome' = Raised(e)
                                  /\ attempt' = attempt
                             ELSE pc' = "execute" /\ outcome' = outcome
                                  /\ attempt' = attempt + 1
       ELSE \* the loop ended without break: the else clause
            /\ IF last_error # NoError
               THEN pc' = "done" /\ outcome' = Raised(last_error)
               ELSE pc' = "parse" /\ outcome' = outcome
            /\ UNCHANGED <<attempt, last_error, result, log, runs>>
    /\ UNCHANGED <<config, call, satellite, script, callback_calls>>

\* Launcher.launch: parse and return the result
launch_parse_result ==
    /\ pc = "parse"
    /\ IF result = None
       THEN \* result was never bound
            outcome' = Raised(Exc("UnboundLocalError", "result")) /\ log' = log
       ELSE IF satellite.result_parser = "raises"
       THEN \* the parser raises: nothing in launch catches it
            /\ outcome' = Raised(Exc("ValueError", "result_parser"))
            /\ log' = Append(log, "result_parser")
       ELSE IF satellite.result_parser # "None"
       THEN outcome' = Returned(Parse(Get(result))) /\ log' = Append(log, "result_parser")
       ELSE outcome' = Returned(Get(result)) /\ log' = log
    /\ pc' = "done"
    /\ UNCHANGED <<config, call, satellite, script, attempt, last_error, result,
                   callback_calls, runs>>

\* the caller has the result or the error; the call's frame is gone
launch_return ==
    /\ pc = "done"
    /\ pc' = "idle"
    /\ call' = NoCall
    /\ satellite' = NoSatellite
    /\ script' = NoScript
    /\ attempt' = 0
    /\ last_error' = NoError
    /\ result' = None
    /\ outcome' = Pending
    /\ log' = <<>>
    /\ callback_calls' = <<>>
    /\ runs' = <<>>
    /\ UNCHANGED config

Next ==
    \/ \E n \in SatelliteNames, p \in ParamDicts, b \in BOOLEAN :
           MissionControl_launch(n, p, b)
    \/ launch_validate_parameters
    \/ launch_safety_check
    \/ launch_render_template
    \/ launch_execute
    \/ launch_parse_result
    \/ launch_return

Spec == Init /\ [][Next]_vars

\* launchers with and without retry, behind the default shield with a
\* confirmation callback
InitRetry ==
    InitMissionControl({SafetyShield(None, TRUE, None, None)},
                       {Launcher(sh, r, m) :
                           sh \in {"mc", "None"}, r \in BOOLEAN, m \in 0..MaxRetries})

SpecRetry == InitRetry /\ [][Next]_vars

(***************************************************************************)
(* Launcher.launch as a function of its arguments, of what the             *)
(* confirmation callback answers if it is asked, and of what the osascript *)
(* processes do, in the order they are run; and Launcher.launch_async.     *)
(***************************************************************************)
RECURSIVE retry_loop(_, _, _, _)
\* the retry loop from the iteration attempt on: the error raised, the result
\* bound (None: unbound), the number of processes run
retry_loop(self, rendered, procs, att) ==
    IF att >= self.max_retries
    THEN \* the loop ended without break; last_error is None or was raised before
         [exc |-> NoError, result |-> None, used |-> att]
    ELSE IF procs = <<>>
    THEN [exc |-> Exc("pending", ""), result |-> None, used |-> att]
    ELSE LET r == _execute_applescript(rendered, Head(procs))
         IN IF r.exc = NoError
            THEN [exc |-> NoError, result |-> Some(r.value), used |-> att + 1]
            ELSE IF reraises(self, att)
            THEN [exc |-> [r.exc EXCEPT !.at = att + 1], result |-> None,
                  used |-> att + 1]
            ELSE retry_loop(self, rendered, Tail(procs), att + 1)

\* Launcher.launch(satellite, parameters, bypass_shield): what it returns or raises
launch_result(self, sat, parameters, bypass_shield, answer, procs) ==
    LET e == validate_parameters(sat, parameters)
        v == IF ~bypass_shield /\ self.safety_shield # "None"
             THEN validate(safety_shield, protected_paths_of(safety_shield),
                           sat, parameters, answer)
             ELSE [exc |-> NoError, callback_calls |-> 0]
        t == _render_template(sat.applescript_template, parameters)
        l == retry_loop(self, t.script, procs, 0)
    IN IF e # NoError THEN Raised(e)
       ELSE IF v.exc # NoError THEN Raised(v.exc)
       ELSE IF t.exc # NoError THEN Raised(t.exc)
       ELSE IF l.exc.type = "pending" THEN Pending
       ELSE IF l.exc # NoError THEN Raised(l.exc)
       ELSE IF l.result = None THEN Raised(Exc("UnboundLocalError", "result"))
       ELSE IF sat.result_parser = "raises"
       THEN Raised(Exc("ValueError", "result_parser"))
       ELSE IF sat.result_parser # "None" THEN Returned(Parse(Get(l.result)))
       ELSE Returned(Get(l.result))

\* launcher.launch(satellite, parameters, bypass_shield) is called
Launcher_launch(sat, parameters, bypass_shield) ==
    /\ pc = "idle"
    /\ call' = [satellite_name |-> sat.name, parameters |-> parameters,
                bypass_shield |-> bypass_shield]
    /\ satellite' = sat
    /\ pc' = "validate_parameters"
    /\ last_call' = [NoRegistryCall EXCEPT !.op = "launch", !.satellite = sat]
    /\ UNCHANGED <<threads, PROTECTED_PATHS, safety_shield, launcher, _satellites, _categories,
                   registered_count, unregistered_count, registered_at, script,
                   attempt, last_error, result, outcome, log, callback_calls, runs>>

\* launch_async that runs launch with bypass_shield=True
Launcher_launch_async_bypassing(sat, parameters) ==
    /\ pc = "idle"
    /\ call' = [satellite_name |-> sat.name, parameters |-> parameters,
                bypass_shield |-> TRUE]
    /\ satellite' = sat
    /\ pc' = "validate_parameters"
    /\ last_call' = [NoRegistryCall EXCEPT !.op = "launch_async", !.satellite = sat]
    /\ UNCHANGED <<threads, PROTECTED_PATHS, safety_shield, launcher, _satellites, _categories,
                   registered_count, unregistered_count, registered_at, script,
                   attempt, last_error, result, outcome, log, callback_calls, runs>>

\* launcher.launch_async(satellite, parameters) is called:
\* asyncio.to_thread(self.launch, satellite, parameters), bypass_shield defaulted
Launcher_launch_async(sat, parameters) ==
    /\ pc = "idle"
    /\ call' = [satellite_name |-> sat.name, parameters |-> parameters,
                bypass_shield |-> FALSE]
    /\ satellite' = sat
    /\ pc' = "validate_parameters"
    /\ last_call' = [NoRegistryCall EXCEPT !.op = "launch_async", !.satellite = sat]
    /\ UNCHANGED <<threads, PROTECTED_PATHS, safety_shield, launcher, _satellites, _categories,
                   registered_count, unregistered_count, registered_at, script,
                   attempt, last_error, result, outcome, log, callback_calls, runs>>

\* the parameter dicts of the launches of the asynchronous specification
AsyncParamDicts == {p \in ParamDicts : DOMAIN p \subseteq {"choice", "path"}}

NextAsync ==
    \/ \E sat \in Range(all_satellites), p \in AsyncParamDicts, b \in BOOLEAN :
           Launcher_launch(sat, p, b)
    \/ \E sat \in Range(all_satellites), p \in AsyncParamDicts :
           Launcher_launch_async(sat, p)
    \/ launch_validate_parameters
    \/ launch_safety_check
    \/ launch_render_template
    \/ launch_execute
    \/ launch_parse_result
    \/ launch_return

SpecAsync == InitRetry /\ [][NextAsync]_vars

(***************************************************************************)
(* Calls of Launcher.launch that run at the same time in several threads   *)
(* on the one launcher (asyncio.to_thread in launch_async).  launch keeps  *)
(* attempt, last_error, result and script in local variables, one set per  *)
(* call; the launcher, the shield and its callback are shared.  A thread   *)
(* is preempted between the steps and runs one call.                       *)
(***************************************************************************)
ThreadSatellites == {safe_sat, moderate_sat}

ThreadParamDicts == {p \in ParamDicts : DOMAIN p \subseteq {"choice"}}

\* what the osascript process of a thread does
ThreadProcessOutcomes ==
    {Completed(0, <<" ", "hello", "\n">>, <<>>),
     Completed(1, <<>>, <<"execution error", "\n">>)}

\* launch(satellite, parameters, bypass_shield) is called in thread t
Thread_launch(t, sat, parameters, bypass_shield) ==
    /\ threads[t].pc = "idle"
    /\ threads' = [threads EXCEPT ![t] =
                      [NoFrame EXCEPT !.pc = "validate_parameters",
                                      !.call = [satellite_name |-> sat.name,
                                                parameters |-> parameters,
                                                bypass_shield |-> bypass_shield],
                                      !.satellite = sat]]
    /\ UNCHANGED <<shared, frame>>

\* thread t: satellite.validate_parameters(parameters)
Thread_validate_parameters(t) ==
    /\ threads[t].pc = "validate_parameters"
    /\ LET f == threads[t]
           e == validate_parameters(f.satellite, f.call.parameters)
       IN threads' = [threads EXCEPT ![t] =
                         IF e # NoError
                         THEN [f EXCEPT !.pc = "done", !.outcome = Raised(e)]
                         ELSE [f EXCEPT !.pc = "safety_check"]]
    /\ UNCHANGED <<shared, frame>>

\* thread t: if not bypass_shield and self.safety_shield: validate
Thread_safety_check(t) ==
    /\ threads[t].pc = "safety_check"
    /\ LET f == threads[t]
       IN IF ~f.call.bypass_shield /\ launcher.safety_shield # "None"
          THEN \E answer \in BOOLEAN :
                  LET v == validate(safety_shield, protected_paths_of(safety_shield),
                                    f.satellite, f.call.parameters, answer)
                      called == [i \in 1..v.callback_calls |->
                                    [satellite |-> f.satellite,
                                     parameters |-> f.call.parameters,
                                     answer |-> answer]]
                  IN threads' = [threads EXCEPT ![t] =
                                    IF v.exc # NoError
                                    THEN [f EXCEPT !.pc = "done",
                                                   !.outcome = Raised(v.exc),
                                                   !.callback_calls = @ \o called]
                                    ELSE [f EXCEPT !.pc = "render",
                                                   !.callback_calls = @ \o called]]
          ELSE threads' = [threads EXCEPT ![t].pc = "render"]
    /\ UNCHANGED <<shared, frame>>

\* thread t: script = self._render_template(...)
Thread_render_template(t) ==
    /\ threads[t].pc = "render"
    /\ LET f == threads[t]
           r == _render_template(f.satellite.applescript_template, f.call.parameters)
       IN threads' = [threads EXCEPT ![t] =
                         IF r.exc # NoError
                         THEN [f EXCEPT !.pc = "done", !.outcome = Raised(r.exc)]
                         ELSE [f EXCEPT !.pc = "execute", !.script = r.script]]
    /\ UNCHANGED <<shared, frame>>

\* a retry loop whose counter is an attribute of the launcher: every thread
\* counts in the counter of the first
Thread_execute_shared_attempt(t) ==
    /\ threads[t].pc = "execute"
    /\ LET f == threads[t]
           counter == threads["t1"].attempt
       IN IF counter < launcher.max_retries
          THEN \E proc \in ThreadProcessOutcomes :
                  LET r == _execute_applescript(f.script, proc)
                      e == [r.exc EXCEPT !.at = Len(f.runs) + 1]
                      g == [f EXCEPT !.runs = Append(@, proc)]
                  IN IF r.exc = NoError
                     THEN threads' = [threads EXCEPT ![t] =
                                [g EXCEPT !.result = Some(r.value), !.pc = "parse"]]
                     ELSE IF reraises(launcher, counter)
                     THEN threads' = [threads EXCEPT ![t] =
                                [g EXCEPT !.last_error = e, !.pc = "done",
                                          !.outcome = Raised(e)]]
                     ELSE threads' = [[threads EXCEPT ![t] = [g EXCEPT !.last_error = e]]
                                         EXCEPT !["t1"].attempt = counter + 1]
          ELSE threads' = [threads EXCEPT ![t] =
                              IF f.last_error # NoError
                              THEN [f EXCEPT !.pc = "done",
                                             !.outcome = Raised(f.last_error)]
                              ELSE [f EXCEPT !.pc = "parse"]]
    /\ UNCHANGED <<shared, frame>>

\* thread t: one iteration of "for attempt in range(self.max_retries)", or the
\* loop's end
Thread_execute(t) ==
    /\ threads[t].pc = "execute"
    /\ LET f == threads[t]
       IN IF f.attempt < launcher.max_retries
          THEN \E proc \in ThreadProcessOutcomes :
                  LET r == _execute_applescript(f.script, proc)
                      e == [r.exc EXCEPT !.at = Len(f.runs) + 1]
                      g == [f EXCEPT !.runs = Append(@, proc)]
                  IN threads' = [threads EXCEPT ![t] =
                        IF r.exc = NoError
                        THEN [g EXCEPT !.result = Some(r.value), !.pc = "parse"]
                        ELSE IF reraises(launcher, f.attempt)
                        THEN [g EXCEPT !.last_error = e, !.pc = "done",
                                       !.outcome = Raised(e)]
                        ELSE [g EXCEPT !.last_error = e, !.attempt = @ + 1]]
          ELSE threads' = [threads EXCEPT ![t] =
                              IF f.last_error # NoError
                              THEN [f EXCEPT !.pc = "done",
                                             !.outcome = Raised(f.last_error)]
                              ELSE [f EXCEPT !.pc = "parse"]]
    /\ UNCHANGED <<shared, frame>>

\* thread t: parse and return the result
Thread_parse_result(t) ==
    /\ threads[t].pc = "parse"
    /\ LET f == threads[t]
       IN threads' = [threads EXCEPT ![t] =
             [f EXCEPT !.pc = "done",
                       !.outcome =
                          IF f.result = None
                          THEN Raised(Exc("UnboundLocalError", "result"))
                          ELSE IF f.satellite.result_parser = "raises"
                          THEN Raised(Exc("ValueError", "result_parser"))
                          ELSE IF f.satellite.result_parser # "None"
                          THEN Returned(Parse(Get(f.result)))
                          ELSE Returned(Get(f.result))]]
    /\ UNCHANGED <<shared, frame>>

\* one launcher with the shield of the MissionControl, shared by the threads
InitThreads ==
    InitMissionControl({SafetyShield(None, TRUE, None, None)},
                       {Launcher("mc", r, m) :
                           r \in BOOLEAN, m \in 1..MaxThreadRetries})

NextThreads ==
    \E t \in Threads :
       \/ \E sat \in ThreadSatellites, p \in ThreadParamDicts, b \in BOOLEAN :
              Thread_launch(t, sat, p, b)
       \/ Thread_validate_parameters(t)
       \/ Thread_safety_check(t)
       \/ Thread_render_template(t)
       \/ Thread_execute(t)
       \/ Thread_parse_result(t)

SpecThreads == InitThreads /\ [][NextThreads]_vars

(***************************************************************************)
(* Launches of satellites whose template or parser fails.                  *)
(***************************************************************************)
\* a satellite whose template is not a well-formed jinja2 template
malformed_sat ==
    [Satellite("malformed_sat", "test", <<>>, SAFE, {}, "None")
        EXCEPT !.applescript_template.well_formed = FALSE]

\* a satellite whose result parser raises
raising_parser_sat ==
    Satellite("raising_parser_sat", "test", <<>>, SAFE, {}, "raises")

PipelineSatellites == <<safe_sat, moderate_sat, malformed_sat, raising_parser_sat>>

PipelineNames == {PipelineSatellites[i].name : i \in 1..Len(PipelineSatellites)}

\* the parameter dicts of the launches of the pipeline specification
PipelineParamDicts ==
    {p \in ParamDicts : DOMAIN p \subseteq {"choice"}}

\* MissionControl(safety_shield=SafetyShield(confirmation_callback=...)) with a
\* launcher that retries or not, after register_constellation(PipelineSatellites)
InitPipeline ==
    /\ PROTECTED_PATHS = PROTECTED_PATHS_DEFAULT
    /\ safety_shield = SafetyShield(None, TRUE, None, None)
    /\ launcher \in {Launcher("mc", r, m) : r \in BOOLEAN, m \in 1..MaxRetries}
    /\ _satellites = Registered(PipelineSatellites)
    /\ _categories = CategoryIndex(PipelineSatellites)
    /\ registered_count = Len(PipelineSatellites)
    /\ unregistered_count = 0
    /\ registered_at = RegisteredAt(PipelineSatellites)
    /\ last_call = NoRegistryCall
    /\ Idle

NextPipeline ==
    \/ \E n \in PipelineNames, p \in PipelineParamDicts, b \in BOOLEAN :
           MissionControl_launch(n, p, b)
    \/ launch_validate_parameters
    \/ launch_safety_check
    \/ launch_render_template
    \/ launch_execute
    \/ launch_parse_result
    \/ launch_return

SpecPipeline == InitPipeline /\ [][NextPipeline]_vars

(***************************************************************************)
(* Constellation: the registry.  A Constellation object is the record of   *)
(* its two dicts; a method's outcome is the error it raises (NoError when  *)
(* it returns) and the object as the call leaves it.                       *)
(***************************************************************************)
Constellation(sats, cats) == [_satellites |-> sats, _categories |-> cats]

\* Constellation.__init__
EmptyConstellation ==
    Constellation([n \in {} |-> NoSatellite], [c \in {} |-> <<>>])

\* dict without a key
DictDel(d, key) == [k \in DOMAIN d \ {key} |-> d[k]]

RECURSIVE list_remove(_, _)
\* list.remove(x): the list without the first occurrence of x
list_remove(l, x) ==
    IF l = <<>> THEN <<>>
    ELSE IF Head(l) = x THEN Tail(l)
    ELSE <<Head(l)>> \o list_remove(Tail(l), x)

\* register that puts the name in front of its category's list
register_prepends(self, sat) ==
    IF sat.name \in DOMAIN self._satellites
    THEN [exc |-> Exc("ValueError", "already registered"), self |-> self]
    ELSE LET cats == IF sat.category \notin DOMAIN self._categories
                     THEN (sat.category :> <<>>) @@ self._categories
                     ELSE self._categories
         IN [exc |-> NoError,
             self |-> Constellation(
                 (sat.name :> sat) @@ self._satellites,
                 [cats EXCEPT ![sat.category] = <<sat.name>> \o @])]

\* register that stores and indexes the satellite before it looks for the name
register_overwrites(self, sat) ==
    LET cats == IF sat.category \notin DOMAIN self._categories
                THEN (sat.category :> <<>>) @@ self._categories
                ELSE self._categories
        stored == Constellation(
                      (sat.name :> sat) @@ self._satellites,
                      [cats EXCEPT ![sat.category] = Append(@, sat.name)])
    IN IF sat.name \in DOMAIN self._satellites
       THEN [exc |-> Exc("ValueError", "already registered"), self |-> stored]
       ELSE [exc |-> NoError, self |-> stored]

\* Constellation.register(satellite)
register(self, sat) ==
    IF sat.name \in DOMAIN self._satellites
    THEN [exc |-> Exc("ValueError", "already registered"), self |-> self]
    ELSE LET cats == IF sat.category \notin DOMAIN self._categories
                     THEN (sat.category :> <<>>) @@ self._categories
                     ELSE self._categories
         IN [exc |-> NoError,
             self |-> Constellation(
                 (sat.name :> sat) @@ self._satellites,
                 [cats EXCEPT ![sat.category] = Append(@, sat.name)])]

\* unregister that deletes the satellite and leaves the category index alone
unregister_keeps_index(self, name) ==
    IF name \notin DOMAIN self._satellites
    THEN [exc |-> Exc("ValueError", "not found"), self |-> self]
    ELSE [exc |-> NoError,
          self |-> Constellation(DictDel(self._satellites, name), self._categories)]

\* unregister that takes the name off the category index and keeps the satellite
unregister_keeps_object(self, name) ==
    IF name \notin DOMAIN self._satellites
       \/ name \notin Range(self._categories[self._satellites[name].category])
    THEN [exc |-> Exc("ValueError", "not found"), self |-> self]
    ELSE [exc |-> NoError,
          self |-> Constellation(
              self._satellites,
              [self._categories EXCEPT ![self._satellites[name].category] =
                  list_remove(@, name)])]

\* Constellation.unregister(name)
unregister(self, name) ==
    IF name \notin DOMAIN self._satellites
    THEN [exc |-> Exc("ValueError", "not found"), self |-> self]
    ELSE LET sat == self._satellites[name]
         IN IF sat.category \notin DOMAIN self._categories
            THEN [exc |-> Exc("KeyError", "category"), self |-> self]
            ELSE IF name \notin Range(self._categories[sat.category])
            THEN [exc |-> Exc("ValueError", "list.remove(x): x not in list"),
                  self |-> self]
            ELSE [exc |-> NoError,
                  self |-> Constellation(
                      DictDel(self._satellites, name),
                      [self._categories EXCEPT ![sat.category] =
                          list_remove(@, name)])]

\* MissionControl.constellation
constellation == Constellation(_satellites, _categories)

\* Constellation.get(name)
get(name) == IF name \in DOMAIN _satellites THEN Some(_satellites[name]) ELSE None

\* Constellation.list_all(), as the set of its elements
list_all == {_satellites[n] : n \in DOMAIN _satellites}

\* Constellation.list_by_category(category)
list_by_category(category) ==
    LET satellite_names == DictGet(_categories, category, <<>>)
    IN [i \in 1..Len(satellite_names) |-> _satellites[satellite_names[i]]]

\* Constellation.get_categories(), as the set of its elements
get_categories == DOMAIN _categories

\* Constellation.get_stats(): total_satellites and categories
get_stats ==
    [total_satellites |-> Cardinality(DOMAIN _satellites),
     categories |-> Cardinality(DOMAIN _categories)]

\* a satellite with the name of safe_sat and another category
safe_sat_files == Satellite("safe_sat", "files", <<>>, SAFE, {}, "parser")

\* the satellites callers register
RegistryPool == Range(all_satellites) \cup {safe_sat_files}

\* the categories callers ask for
Categories == {s.category : s \in RegistryPool} \cup {"unknown"}

\* the parameter dicts of the launches of the registry specification
RegistryParamDicts ==
    {p \in ParamDicts : DOMAIN p \subseteq {"choice"} /\ \A k \in DOMAIN p : p[k] \in ChoiceEnum}

\* MissionControl.register(satellite)
MissionControl_register(sat) ==
    /\ pc = "idle"
    /\ LET r == register(constellation, sat)
       IN /\ (r.exc = NoError) => registered_count < MaxRegistrations
          /\ _satellites' = r.self._satellites
          /\ _categories' = r.self._categories
          /\ last_call' = [NoRegistryCall EXCEPT !.op = "register",
                                                 !.satellite = sat, !.exc = r.exc]
          /\ IF r.exc = NoError
             THEN /\ registered_count' = registered_count + 1
                  /\ registered_at' =
                         (sat.name :> [satellite |-> sat,
                                       time |-> registered_count + 1,
                                       live |-> TRUE]) @@ registered_at
             ELSE UNCHANGED <<registered_count, registered_at>>
    /\ UNCHANGED <<threads, PROTECTED_PATHS, safety_shield, launcher, unregistered_count,
                   pc, call, satellite, script, attempt, last_error, result,
                   outcome, log, callback_calls, runs>>

\* MissionControl.constellation.unregister(name)
constellation_unregister(name) ==
    /\ pc = "idle"
    /\ LET r == unregister(constellation, name)
       IN /\ _satellites' = r.self._satellites
          /\ _categories' = r.self._categories
          /\ last_call' = [NoRegistryCall EXCEPT !.op = "unregister",
                                                 !.name = name, !.exc = r.exc]
          /\ IF r.exc = NoError
             THEN /\ unregistered_count' = unregistered_count + 1
                  /\ registered_at' = [registered_at EXCEPT ![name].live = FALSE]
             ELSE UNCHANGED <<unregistered_count, registered_at>>
    /\ UNCHANGED <<threads, PROTECTED_PATHS, safety_shield, launcher, registered_count,
                   pc, call, satellite, script, attempt, last_error, result,
                   outcome, log, callback_calls, runs>>

\* MissionControl(safety_shield=SafetyShield(confirmation_callback=...)): an
\* empty registry, the default rules and the launcher built with the shield
InitRegistry ==
    /\ PROTECTED_PATHS = PROTECTED_PATHS_DEFAULT
    /\ safety_shield = SafetyShield(None, TRUE, None, None)
    /\ launcher = Launcher("mc", FALSE, DefaultMaxRetries)
    /\ _satellites = EmptyConstellation._satellites
    /\ _categories = EmptyConstellation._categories
    /\ registered_count = 0
    /\ unregistered_count = 0
    /\ registered_at = [n \in {} |-> [satellite |-> NoSatellite, time |-> 0,
                                      live |-> FALSE]]
    /\ last_call = NoRegistryCall
    /\ Idle

NextRegistry ==
    \/ \E sat \in RegistryPool : MissionControl_register(sat)
    \/ \E n \in SatelliteNames : constellation_unregister(n)
    \/ \E n \in SatelliteNames, p \in RegistryParamDicts, b \in BOOLEAN :
           MissionControl_launch(n, p, b)
    \/ launch_validate_parameters
    \/ launch_safety_check
    \/ launch_render_template
    \/ launch_execute
    \/ launch_parse_result
    \/ launch_return

SpecRegistry == InitRegistry /\ [][NextRegistry]_vars

(***************************************************************************)
(* MissionControl.register_constellation: the satellites of a list          *)
(* registered one after the other.                                          *)
(***************************************************************************)
\* register_constellation that checks every name before it registers any
register_constellation_all_or_nothing(self, sats) ==
    LET names == {sats[i].name : i \in 1..Len(sats)}
        RECURSIVE all(_, _)
        all(c, i) == IF i > Len(sats) THEN c ELSE all(register(c, sats[i]).self, i + 1)
    IN IF names \cap DOMAIN self._satellites # {} \/ Cardinality(names) # Len(sats)
       THEN [exc |-> Exc("ValueError", "already registered"), self |-> self,
             registered |-> 0]
       ELSE [exc |-> NoError, self |-> all(self, 1), registered |-> Len(sats)]

\* register_constellation that skips the satellites whose name is registered
register_constellation_skipping(self, sats) ==
    LET RECURSIVE loop(_, _, _)
        loop(c, i, n) ==
            IF i > Len(sats)
            THEN [exc |-> NoError, self |-> c, registered |-> n]
            ELSE LET r == register(c, sats[i])
                 IN loop(r.self, i + 1, IF r.exc = NoError THEN n + 1 ELSE n)
    IN loop(self, 1, 0)

\* for satellite in satellites: self.register(satellite)
\* the error raised, the registry after the call, the number of satellites registered
register_constellation(self, sats) ==
    LET RECURSIVE loop(_, _)
        loop(c, i) ==
            IF i > Len(sats)
            THEN [exc |-> NoError, self |-> c, registered |-> i - 1]
            ELSE LET r == register(c, sats[i])
                 IN IF r.exc # NoError
                    THEN [exc |-> r.exc, self |-> c, registered |-> i - 1]
                    ELSE loop(r.self, i + 1)
    IN loop(self, 1)

\* the lists callers pass to register_constellation
\* the satellites of these lists: two of one name, two of one category
ConstellationPool == {safe_sat, moderate_sat, safe_sat_files}

ConstellationLists ==
    UNION {[1..n -> ConstellationPool] : n \in 0..MaxListLen}

\* MissionControl.register_constellation(satellites)
MissionControl_register_constellation(sats) ==
    /\ pc = "idle"
    /\ LET r == register_constellation(constellation, sats)
       IN /\ registered_count + r.registered <= MaxRegistrations
          /\ _satellites' = r.self._satellites
          /\ _categories' = r.self._categories
          /\ last_call' = [NoRegistryCall EXCEPT !.op = "register_constellation",
                                                 !.satellites = sats, !.exc = r.exc]
          /\ registered_count' = registered_count + r.registered
          /\ registered_at' =
                 [n \in DOMAIN r.self._satellites |->
                    IF n \in DOMAIN _satellites
                    THEN registered_at[n]
                    ELSE [satellite |-> r.self._satellites[n],
                          time |-> registered_count
                                   + (CHOOSE i \in 1..r.registered : sats[i].name = n),
                          live |-> TRUE]]
                 @@ registered_at
    /\ UNCHANGED <<threads, PROTECTED_PATHS, safety_shield, launcher, unregistered_count,
                   pc, call, satellite, script, attempt, last_error, result,
                   outcome, log, callback_calls, runs>>

NextConstellation ==
    \/ \E sat \in ConstellationPool : MissionControl_register(sat)
    \/ \E sats \in ConstellationLists : MissionControl_register_constellation(sats)
    \/ \E n \in SatelliteNames : constellation_unregister(n)

SpecConstellation == InitRegistry /\ [][NextConstellation]_vars

(***************************************************************************)
(* The protected paths of the MissionControl's shield changed at run time. *)
(***************************************************************************)
\* SafetyShield.add_protected_path(path): the list after the call
add_protected_path(protected_paths, path) ==
    Append(protected_paths, resolve(expanduser(path)))

\* SafetyShield.remove_protected_path(path): the list after the call
remove_protected_path(protected_paths, path) ==
    LET path_obj == resolve(expanduser(path))
    IN IF path_obj \in Range(protected_paths)
       THEN list_remove(protected_paths, path_obj)
       ELSE protected_paths

\* the paths callers protect and unprotect
ProtectedPathArgs ==
    { <<"/", "opt", "data">>,
      <<"~", "Documents">>,      \* the entry of CustomProtected
      <<"/", "System">>,         \* an entry of the class's list
      <<"/", "etc">> }           \* an entry of the class's list, a symlink

\* the list the shield's protected_paths attribute referred to at construction
PathsAtConstruction(self) ==
    IF self.protected_paths = "CLASS" THEN PROTECTED_PATHS_DEFAULT ELSE CustomProtected

\* the shield's list is replaced by l: the class attribute when the shield's
\* attribute refers to it, the shield's own list otherwise
SetProtectedPaths(l) ==
    IF safety_shield.protected_paths = "CLASS"
    THEN PROTECTED_PATHS' = l /\ safety_shield' = safety_shield
    ELSE PROTECTED_PATHS' = PROTECTED_PATHS
         /\ safety_shield' = [safety_shield EXCEPT !.own_paths = l]

\* safety_shield.add_protected_path(path)
SafetyShield_add_protected_path(path) ==
    /\ pc = "idle"
    /\ Len(protected_paths_of(safety_shield)) 
           < Len(PathsAtConstruction(safety_shield)) + MaxAddedPaths
    /\ SetProtectedPaths(add_protected_path(protected_paths_of(safety_shield), path))
    /\ last_call' = [NoRegistryCall EXCEPT !.op = "add_protected_path", !.path = path]
    /\ UNCHANGED <<threads, launcher, _satellites, _categories, registered_count,
                   unregistered_count, registered_at, pc, call,
                   satellite, script, attempt, last_error, result, outcome, log,
                   callback_calls, runs>>

\* safety_shield.remove_protected_path(path)
SafetyShield_remove_protected_path(path) ==
    /\ pc = "idle"
    /\ SetProtectedPaths(remove_protected_path(protected_paths_of(safety_shield), path))
    /\ last_call' = [NoRegistryCall EXCEPT !.op = "remove_protected_path",
                                           !.path = path]
    /\ UNCHANGED <<threads, launcher, _satellites, _categories, registered_count,
                   unregistered_count, registered_at, pc, call,
                   satellite, script, attempt, last_error, result, outcome, log,
                   callback_calls, runs>>

\* the paths callers have checked
CheckPathArgs ==
    ProtectedPathArgs \cup { <<"/">>, <<"/", "System", "Library">>, <<"/", "tmp", "test">> }

\* safety_shield._check_path(path)
SafetyShield__check_path(path) ==
    /\ pc = "idle"
    /\ last_call' =
           [NoRegistryCall EXCEPT
               !.op = "_check_path", !.path = path,
               !.exc = IF _check_path(protected_paths_of(safety_shield), path)
                       THEN Exc("ShieldError", "Protected path detected")
                       ELSE NoError]
    /\ UNCHANGED <<threads, PROTECTED_PATHS, safety_shield, launcher, _satellites, _categories,
                   registered_count, unregistered_count, registered_at, pc, call,
                   satellite, script, attempt, last_error, result, outcome, log,
                   callback_calls, runs>>

\* MissionControl(safety_shield=SafetyShield()) and
\* MissionControl(safety_shield=SafetyShield(protected_paths=[...]))
InitShield ==
    InitMissionControl({SafetyShield(None, FALSE, pp, None) :
                           pp \in {None, Some(CustomProtected)}},
                       {Launcher("mc", FALSE, DefaultMaxRetries)})

NextShield ==
    \/ \E path \in ProtectedPathArgs : SafetyShield_add_protected_path(path)
    \/ \E path \in ProtectedPathArgs : SafetyShield_remove_protected_path(path)
    \/ \E path \in CheckPathArgs : SafetyShield__check_path(path)

SpecShield == InitShield /\ [][NextShield]_vars

(***************************************************************************)
(* Satellite.validate_parameters called on its own.                        *)
(***************************************************************************)
\* a satellite whose parameter has an enum that is an empty list
empty_enum_sat ==
    Satellite("empty_enum_sat", "test",
              <<SatelliteParameter("choice", FALSE, Some({}))>>,
              SAFE, {"choice"}, "None")

\* a satellite with two required parameters, one of them with an enum
two_required_sat ==
    Satellite("two_required_sat", "test",
              <<SatelliteParameter("path", TRUE, None),
                SatelliteParameter("choice", TRUE, Some(ChoiceEnum))>>,
              SAFE, {"path", "choice"}, "None")

\* the satellites whose validate_parameters is called
ValidationPool == Range(all_satellites) \cup {empty_enum_sat, two_required_sat}

\* sat.validate_parameters(parameters): raises, or returns True
Satellite_validate_parameters(sat, parameters) ==
    /\ pc = "idle"
    /\ satellite' = sat
    /\ call' = [NoCall EXCEPT !.satellite_name = sat.name, !.parameters = parameters]
    /\ LET e == validate_parameters(sat, parameters)
       IN outcome' = IF e # NoError THEN Raised(e) ELSE Returned(<<"True">>)
    /\ pc' = "done"
    /\ last_call' = [NoRegistryCall EXCEPT !.op = "validate_parameters",
                                           !.satellite = sat]
    /\ UNCHANGED <<threads, PROTECTED_PATHS, safety_shield, launcher, _satellites, _categories,
                   registered_count, unregistered_count, registered_at, script,
                   attempt, last_error, result, log, callback_calls, runs>>

InitValidate ==
    InitMissionControl({SafetyShield(None, FALSE, None, None)},
                       {Launcher("mc", FALSE, DefaultMaxRetries)})

NextValidate ==
    \/ \E sat \in ValidationPool, p \in ParamDicts : Satellite_validate_parameters(sat, p)
    \/ launch_return

SpecValidate == InitValidate /\ [][NextValidate]_vars

(***************************************************************************)
(* Vocabulary of the properties.                                           *)
(***************************************************************************)
Count(op) == Cardinality({i \in 1..Len(log) : log[i] = op})
Called(op) == \E i \in 1..Len(log) : log[i] = op
\* the first position of op in the log (0: never called)
FirstCall(op) ==
    IF Called(op) THEN CHOOSE i \in 1..Len(log) : log[i] = op /\ \A j \in 1..(i - 1) : log[j] # op
    ELSE 0

\* the launch called the MissionControl's shield
ValidateCalled == Called("safety_shield.validate")
ValidateReturnedTrue == Called("validate returned True")
ValidateRaised(msg) ==
    /\ Called("validate raised")
    /\ pc = "done"
    /\ outcome = Raised(Exc("ShieldError", msg))
ValidateRaisedShieldError ==
    /\ Called("validate raised")
    /\ pc = "done"
    /\ outcome.status = "raised"
    /\ outcome.exc.type = "ShieldError"

\* parameters has a key "path" whose expanded, resolved value is equal to or
\* nested under an entry of the shield's protected list
PathHit ==
    /\ "path" \in DOMAIN call.parameters
    /\ LET pp == protected_paths_of(safety_shield)
           rp == resolve(expanduser(call.parameters["path"]))
       IN \E i \in 1..Len(pp) :
              /\ Len(pp[i]) <= Len(rp)
              /\ \A j \in 1..Len(pp[i]) : rp[j] = pp[i][j]
\* parameters has a key "command" whose value contains an entry of the
\* shield's dangerous-command list
CommandHit ==
    /\ "command" \in DOMAIN call.parameters
    /\ LET c == call.parameters["command"]
           dc == safety_shield.dangerous_commands
       IN \E i \in 1..Len(dc) : \E k \in 0..Len(c) :
              /\ k + Len(dc[i]) <= Len(c)
              /\ \A j \in 1..Len(dc[i]) : c[k + j] = dc[i][j]
\* the rule the shield holds for the satellite's level
RuleAction == DictGet(safety_shield.rules, satellite.safety_level, DENY)

Executions == Count("_execute_applescript")

(***************************************************************************)
(* C1: whatever the rule table, the level and the callback, validate       *)
(* raises the protected-path ShieldError, and does not return True, when   *)
(* parameters["path"] resolves to or under a protected path.               *)
(***************************************************************************)
C1_ProtectedPathRaises ==
    (ValidateCalled /\ PathHit)
        => /\ ValidateRaised("Protected path detected")
           /\ ~ValidateReturnedTrue
           /\ Executions = 0

\* a protected path under a rule that allows the level
C1_Witness ==
    /\ ValidateCalled /\ PathHit
    /\ RuleAction = ALLOW
    /\ call.parameters["path"] = <<"/", "Users", "..", "usr">>
    /\ ValidateRaised("Protected path detected")

(***************************************************************************)
(* C2 as stated: validate raises the dangerous-command ShieldError         *)
(* whenever parameters["command"] contains a dangerous entry.              *)
(***************************************************************************)
C2_Original ==
    (ValidateCalled /\ CommandHit) => ValidateRaised("Dangerous command detected")

(***************************************************************************)
(* C2 amended: validate raises ShieldError whenever parameters["command"]  *)
(* contains a dangerous entry; the error is the dangerous-command one      *)
(* unless parameters also has a protected "path", whose check comes first  *)
(* and raises the protected-path error.                                    *)
(***************************************************************************)
C2_DangerousCommandRaises ==
    (ValidateCalled /\ CommandHit)
        => /\ ~ValidateReturnedTrue
           /\ Executions = 0
           /\ IF PathHit
              THEN ValidateRaised("Protected path detected")
              ELSE ValidateRaised("Dangerous command detected")

\* a dangerous command approved by the callback under a confirmation rule
C2_Witness ==
    /\ ValidateCalled /\ CommandHit /\ ~PathHit
    /\ safety_shield.confirmation_callback
    /\ ValidateRaised("Dangerous command detected")

(***************************************************************************)
(* C3 as stated: a launch without bypass_shield that executes a script has *)
(* called the MissionControl's safety_shield.validate before, and it       *)
(* returned True.                                                          *)
(***************************************************************************)
C3_NoExecutionWithoutValidate ==
    (Executions > 0 /\ ~call.bypass_shield)
        => /\ ValidateReturnedTrue
           /\ FirstCall("validate returned True") < FirstCall("_execute_applescript")

(***************************************************************************)
(* C4 as stated: under the default rule table validate never returns True  *)
(* for a CRITICAL satellite, and a launch of a CRITICAL satellite without  *)
(* bypass through a MissionControl with the default shield executes no     *)
(* script.                                                                 *)
(***************************************************************************)
C4_CriticalNeverRuns ==
    /\ (ValidateCalled /\ safety_shield.rules = DEFAULT_RULES
        /\ satellite.safety_level = CRITICAL)
           => ValidateRaisedShieldError /\ ~ValidateReturnedTrue
    /\ (safety_shield = SafetyShield(None, FALSE, None, None)
        /\ satellite.safety_level = CRITICAL
        /\ pc # "idle" /\ ~call.bypass_shield)
           => Executions = 0

(***************************************************************************)
(* C5: when the rule for the level is REQUIRE_CONFIRMATION and neither     *)
(* blocklist check fails, validate raises "requires confirmation but no    *)
(* callback provided" without a callback; with one, it calls it exactly    *)
(* once with (satellite, parameters), returns True if its answer is true   *)
(* and raises "User denied" if it is false.                                *)
(***************************************************************************)
C5_ConfirmationDecides ==
    (ValidateCalled /\ RuleAction = REQUIRE_CONFIRMATION /\ ~PathHit /\ ~CommandHit)
        => IF ~safety_shield.confirmation_callback
           THEN /\ callback_calls = <<>>
                /\ Count("confirmation_callback") = 0
                /\ ValidateRaised("requires confirmation but no callback provided")
           ELSE /\ Len(callback_calls) = 1
                /\ Count("confirmation_callback") = 1
                /\ callback_calls[1].satellite = satellite
                /\ callback_calls[1].parameters = call.parameters
                /\ ValidateReturnedTrue <=> callback_calls[1].answer
                /\ ~callback_calls[1].answer => ValidateRaised("User denied the mission")

\* the callback was asked and said no
C5_Witness ==
    /\ ValidateCalled /\ RuleAction = REQUIRE_CONFIRMATION /\ ~PathHit /\ ~CommandHit
    /\ Len(callback_calls) = 1
    /\ ~callback_calls[1].answer
    /\ call.parameters # <<>>
    /\ ValidateRaised("User denied the mission")

(***************************************************************************)
(* C6: under the default rule table, validate of a SAFE satellite never    *)
(* calls the confirmation callback, and returns True whenever parameters   *)
(* hit neither the protected paths nor the dangerous commands.             *)
(***************************************************************************)
C6_SafeAllowedWithoutCallback ==
    (ValidateCalled /\ safety_shield.rules = DEFAULT_RULES
     /\ satellite.safety_level = SAFE)
        => /\ callback_calls = <<>>
           /\ Count("confirmation_callback") = 0
           /\ (~PathHit /\ ~CommandHit) => ValidateReturnedTrue

\* a SAFE satellite passed a shield that has a callback
C6_Witness ==
    /\ ValidateCalled /\ safety_shield.rules = DEFAULT_RULES
    /\ satellite.safety_level = SAFE
    /\ safety_shield.confirmation_callback
    /\ "path" \in DOMAIN call.parameters /\ "command" \in DOMAIN call.parameters
    /\ ValidateReturnedTrue

(***************************************************************************)
(* C7 as stated: with a rule table passed by the caller, validate raises   *)
(* ShieldError for a satellite whose level has no entry in that table.     *)
(***************************************************************************)
C7_UnmappedLevelDenied ==
    (ValidateCalled /\ safety_shield.rules_arg # None
     /\ satellite.safety_level \notin DOMAIN Get(safety_shield.rules_arg))
        => ValidateRaisedShieldError /\ ~ValidateReturnedTrue

(***************************************************************************)
(* C8 as stated: with the strict-mode table of examples/custom_safety.py   *)
(* validate raises ShieldError for every MODERATE, DANGEROUS or CRITICAL   *)
(* satellite, and a launch of one without bypass executes no script.       *)
(***************************************************************************)
C8_StrictModeAllowsOnlySafe ==
    (safety_shield.rules_arg = Some(StrictRulesExample)
     /\ satellite.safety_level \in {MODERATE, DANGEROUS, CRITICAL}
     /\ launcher.safety_shield = "mc"
     /\ pc # "idle" /\ ~call.bypass_shield)
        => /\ ValidateCalled => ValidateRaisedShieldError
           /\ ~ValidateReturnedTrue
           /\ Executions = 0

(***************************************************************************)
(* C9: every call of Launcher.launch runs validate_parameters first, also  *)
(* with bypass_shield and without a shield; when it raises                 *)
(* ParameterValidationError, the launch calls neither the shield, nor the  *)
(* callback, nor the renderer, and spawns no process.                      *)
(***************************************************************************)
C9_ParametersValidatedFirst ==
    /\ log # <<>> => log[1] = "validate_parameters"
    /\ (pc \notin {"idle", "validate_parameters"}
        /\ outcome.exc.type # "SatelliteNotFoundError")
           => Count("validate_parameters") = 1
    /\ (outcome.exc.type = "ParameterValidationError"
        \/ (pc \notin {"idle", "validate_parameters"}
            /\ outcome.exc.type # "SatelliteNotFoundError"
            /\ validate_parameters(satellite, call.parameters) # NoError))
           => /\ pc = "done"
              /\ outcome.status = "raised"
              /\ outcome.exc.type = "ParameterValidationError"
              /\ log = <<"validate_parameters">>
              /\ callback_calls = <<>>
              /\ runs = <<>>
              /\ script = NoScript

\* invalid parameters stopped a launch that bypasses a shield
C9_Witness ==
    /\ pc = "done"
    /\ call.bypass_shield
    /\ outcome.exc.type = "ParameterValidationError"
    /\ "path" \in DOMAIN call.parameters
    /\ log = <<"validate_parameters">>

\* invalid parameters stopped a launch of a launcher without shield
C9_WitnessNoShield ==
    /\ pc = "done"
    /\ launcher.safety_shield = "None"
    /\ outcome.exc.type = "ParameterValidationError"

(***************************************************************************)
(* C10: with retry_on_failure and max_retries = N >= 1, the script is      *)
(* executed until the first success and at most N times: a first success   *)
(* at attempt k means exactly k executions and that attempt's output as    *)
(* the result; N failures (non-zero exit or timeout) mean exactly N        *)
(* executions and the last attempt's error raised.                         *)
(***************************************************************************)
Failed(proc) == proc.kind = "timeout" \/ proc.returncode # 0
\* what launch makes of the output of a successful process
ResultOf(proc) ==
    IF satellite.result_parser # "None"
    THEN <<"parsed">> \o strip(proc.stdout) ELSE strip(proc.stdout)

C10_RetryUntilSuccess ==
    (launcher.retry_on_failure /\ launcher.max_retries >= 1)
        => /\ Executions = Len(runs)
           /\ Len(runs) <= launcher.max_retries
           /\ \A i \in 1..(Len(runs) - 1) : Failed(runs[i])
           /\ (pc = "execute") => /\ Len(runs) < launcher.max_retries
                                  /\ \A i \in 1..Len(runs) : Failed(runs[i])
           /\ (pc = "done" /\ outcome.status = "returned")
                 => /\ runs # <<>>
                    /\ ~Failed(runs[Len(runs)])
                    /\ outcome.value = ResultOf(runs[Len(runs)])
           /\ (pc = "done" /\ runs # <<>> /\ Failed(runs[Len(runs)]))
                 => /\ Len(runs) = launcher.max_retries
                    /\ outcome.status = "raised"
                    /\ outcome.exc.type = "AppleScriptError"
                    /\ outcome.exc.at = launcher.max_retries
           /\ (pc = "done" /\ outcome.status = "raised" /\ runs # <<>>)
                 => Failed(runs[Len(runs)])

\* two failures, one by timeout, then a success returned
C10_WitnessSuccess ==
    /\ launcher.retry_on_failure /\ launcher.max_retries = 3
    /\ pc = "done" /\ outcome.status = "returned"
    /\ Len(runs) = 3
    /\ runs[1].kind = "timeout"

\* every attempt failed
C10_WitnessExhausted ==
    /\ launcher.retry_on_failure /\ launcher.max_retries = 3
    /\ pc = "done" /\ outcome.status = "raised"
    /\ Len(runs) = 3

(***************************************************************************)
(* C11: with retry_on_failure False and any max_retries >= 1, a launch     *)
(* that gets as far as running the script runs it exactly once; a failure  *)
(* of that one run is raised at once, with no second run.                  *)
(***************************************************************************)
C11_NoRetryRunsOnce ==
    (~launcher.retry_on_failure /\ launcher.max_retries >= 1)
        => /\ Executions = Len(runs)
           /\ Len(runs) <= 1
           /\ (pc = "execute") => runs = <<>>
           /\ (pc = "parse") => Len(runs) = 1 /\ ~Failed(runs[1])
           /\ (pc = "done" /\ Called("_render_template") /\ script # NoScript)
                 => Len(runs) = 1
           /\ (runs # <<>> /\ Failed(runs[1]))
                 => /\ pc = "done"
                    /\ outcome.status = "raised"
                    /\ outcome.exc.type = "AppleScriptError"
                    /\ outcome.exc.at = 1

\* the one run failed and its error is raised, with retries to spare
C11_Witness ==
    /\ ~launcher.retry_on_failure /\ launcher.max_retries = 3
    /\ pc = "done" /\ outcome.status = "raised"
    /\ Len(runs) = 1 /\ Failed(runs[1])

(***************************************************************************)
(* C12: when the process times out, the error launch raises is an          *)
(* AppleScriptTimeoutError, not a plain AppleScriptError.                   *)
(***************************************************************************)
C12_TimeoutRaisesTimeoutError ==
    (pc = "done" /\ outcome.status = "raised"
        /\ runs # <<>> /\ runs[Len(runs)].kind = "timeout")
        => outcome.exc.type = "AppleScriptTimeoutError"

(***************************************************************************)
(* C13: when the process exits with a non-zero status, the error raised    *)
(* is an AppleScriptError whose script is the rendered script, whose       *)
(* return_code is the exit status, and whose message has the stderr text.  *)
(***************************************************************************)
C13_NonZeroExitError ==
    (pc = "done" /\ outcome.status = "raised"
        /\ runs # <<>> /\ runs[Len(runs)].kind = "completed"
        /\ runs[Len(runs)].returncode # 0)
        => /\ outcome.exc.type = "AppleScriptError"
           /\ outcome.exc.script = Some(script)
           /\ outcome.exc.return_code = Some(runs[Len(runs)].returncode)
           /\ outcome.exc.msg = "AppleScript execution failed: execution error"

(***************************************************************************)
(* Vocabulary of the registry properties, from the history of the calls.   *)
(***************************************************************************)
\* the names registered by a register call that returned, with no unregister
\* of the name returned since
CurrentlyRegistered == {n \in DOMAIN registered_at : registered_at[n].live}

\* every name a caller or an index can hold
AllNames ==
    SatelliteNames \cup DOMAIN _satellites
    \cup UNION {Range(_categories[c]) : c \in DOMAIN _categories}

\* the places of a name in the category index
PlacesOf(name) ==
    UNION {{<<c, i>> : i \in {j \in 1..Len(_categories[c]) : _categories[c][j] = name}} :
              c \in DOMAIN _categories}

(***************************************************************************)
(* C14: after any sequence of register and unregister calls, launch of a   *)
(* name raises SatelliteNotFoundError exactly when the name is not         *)
(* currently registered, and then nothing is validated, checked, rendered  *)
(* or executed.                                                            *)
(***************************************************************************)
C14_LaunchOfUnregisteredName ==
    (pc # "idle")
        => /\ (call.satellite_name \notin CurrentlyRegistered)
                 <=> /\ pc = "done"
                     /\ outcome.status = "raised"
                     /\ outcome.exc.type = "SatelliteNotFoundError"
           /\ (call.satellite_name \notin CurrentlyRegistered)
                 => /\ log = <<>>
                    /\ callback_calls = <<>>
                    /\ script = NoScript
                    /\ runs = <<>>
           /\ (call.satellite_name \in CurrentlyRegistered)
                 => satellite = registered_at[call.satellite_name].satellite

\* the launch of a name that was registered and then unregistered
C14_Witness ==
    /\ pc = "done"
    /\ call.satellite_name \in DOMAIN registered_at
    /\ call.satellite_name \notin CurrentlyRegistered
    /\ outcome.exc.type = "SatelliteNotFoundError"

\* the launch of a name registered after other calls ran its script
C14_WitnessRegistered ==
    /\ pc = "done" /\ runs # <<>>
    /\ unregistered_count >= 1
    /\ call.satellite_name \in CurrentlyRegistered

(***************************************************************************)
(* C15: in every state of the registry, a name is in some category's list  *)
(* exactly when it is a key of the satellite map, and then it is there     *)
(* once, in the list of the category of its satellite.                     *)
(***************************************************************************)
C15_IndexesAgree ==
    \A name \in AllNames :
        /\ (PlacesOf(name) # {}) <=> (name \in DOMAIN _satellites)
        /\ (name \in DOMAIN _satellites)
              => /\ Cardinality(PlacesOf(name)) = 1
                 /\ \A pl \in PlacesOf(name) : pl[1] = _satellites[name].category

\* after calls that failed and calls that returned, both categories in use
C15_Witness ==
    /\ last_call.op = "unregister" /\ last_call.exc = NoError
    /\ registered_count = 3
    /\ Cardinality(DOMAIN _satellites) = 2
    /\ \E c \in DOMAIN _categories : Len(_categories[c]) = 2

(***************************************************************************)
(* C16: register of a name that is registered raises ValueError and leaves *)
(* the satellite map and the category index as they were; get(name) still  *)
(* gives the satellite registered first, also when the second satellite    *)
(* has another category.                                                   *)
(***************************************************************************)
C16_DuplicateRegisterChangesNothing ==
    [][\A sat \in RegistryPool :
          (/\ pc = "idle" /\ pc' = "idle"
           /\ last_call'.op = "register" /\ last_call'.satellite = sat
           /\ sat.name \in DOMAIN _satellites)
          => /\ last_call'.exc.type = "ValueError"
             /\ _satellites' = _satellites
             /\ _categories' = _categories
             /\ get(sat.name)' = get(sat.name)]_vars

\* a register call refused for a satellite of another category than the
\* registered one of that name
C16_Witness ==
    /\ last_call.op = "register" /\ last_call.exc.type = "ValueError"
    /\ last_call.satellite.name \in DOMAIN _satellites
    /\ _satellites[last_call.satellite.name].category # last_call.satellite.category

(***************************************************************************)
(* C17: unregister of the last satellite of a category removes the         *)
(* category's key: no category has an empty list, so get_categories() and  *)
(* get_stats()['categories'] count the categories that have satellites.    *)
(***************************************************************************)
C17_NoEmptyCategory ==
    /\ \A c \in DOMAIN _categories : _categories[c] # <<>>
    /\ get_categories = {_satellites[n].category : n \in DOMAIN _satellites}
    /\ get_stats.categories =
           Cardinality({_satellites[n].category : n \in DOMAIN _satellites})

(***************************************************************************)
(* C18: get(name) is the satellite of the last register call of the name   *)
(* that returned, None when the name is not currently registered; the      *)
(* length of list_all() is the number of register calls that returned      *)
(* minus the number of unregister calls that returned.                     *)
(***************************************************************************)
C18_GetAndCount ==
    /\ \A name \in AllNames :
          get(name) = IF name \in CurrentlyRegistered
                      THEN Some(registered_at[name].satellite) ELSE None
    /\ Cardinality(list_all) = registered_count - unregistered_count

\* a name registered, unregistered and registered again with another satellite
C18_Witness ==
    /\ unregistered_count >= 1
    /\ get("safe_sat") = Some(safe_sat_files)
    /\ registered_at["safe_sat"].time >= 2
    /\ Cardinality(DOMAIN registered_at) = 1
    /\ get("unknown") = None

(***************************************************************************)
(* C19: list_by_category(c) is the currently registered satellites of      *)
(* category c, in the order of their registration (a satellite registered  *)
(* again after an unregister is at the end); it is empty for a category    *)
(* that is unknown or has no satellite.                                    *)
(***************************************************************************)
C19_CategoryListInRegistrationOrder ==
    \A c \in Categories :
        LET l == list_by_category(c)
            expected == {n \in CurrentlyRegistered :
                            registered_at[n].satellite.category = c}
        IN /\ Len(l) = Cardinality(expected)
           /\ {l[i].name : i \in 1..Len(l)} = expected
           /\ \A i \in 1..Len(l) : l[i] = registered_at[l[i].name].satellite
           /\ \A i, j \in 1..Len(l) :
                 (i < j) => registered_at[l[i].name].time
                                < registered_at[l[j].name].time

\* safe_sat, then moderate_sat, then safe_sat unregistered and registered again
C19_Witness ==
    /\ registered_count = 3 /\ unregistered_count = 1
    /\ DOMAIN registered_at = {"safe_sat", "moderate_sat"}
    /\ list_by_category("test") = <<moderate_sat, safe_sat>>
    /\ list_by_category("unknown") = <<>>

(***************************************************************************)
(* C20: after remove_protected_path(p) has returned, p is not in the       *)
(* shield's protected paths, and a check of p does not fail on account of  *)
(* p, whatever add_protected_path and remove_protected_path calls came     *)
(* before.                                                                 *)
(***************************************************************************)
C20_RemovedPathUnprotected ==
    (last_call.op = "remove_protected_path")
        => LET p == resolve(expanduser(last_call.path))
               l == protected_paths_of(safety_shield)
           IN /\ p \notin Range(l)
              /\ _check_path(l, last_call.path)
                    => \E i \in 1..Len(l) : l[i] # p /\ is_relative_to(p, l[i])

(***************************************************************************)
(* C21: with the default protected paths the filesystem root is protected: *)
(* "/" is in SafetyShield.PROTECTED_PATHS and _check_path("/") raises      *)
(* ShieldError.                                                            *)
(***************************************************************************)
\* the shield's list is the class's list as the class defines it
DefaultProtectedPaths ==
    /\ safety_shield.protected_paths = "CLASS"
    /\ PROTECTED_PATHS = PROTECTED_PATHS_DEFAULT

OtherShield == SafetyShield(None, FALSE, None, None)

C27_OtherShieldsUnchanged ==
    /\ PROTECTED_PATHS = PROTECTED_PATHS_DEFAULT
    /\ protected_paths_of(OtherShield) = PROTECTED_PATHS_DEFAULT
    /\ \A path \in CheckPathArgs :
          _check_path(protected_paths_of(OtherShield), path)
              <=> _check_path(PROTECTED_PATHS_DEFAULT, path)

(***************************************************************************)
(* C22: validate_parameters raises ParameterValidationError exactly when a *)
(* parameter declared required is absent from the parameters, or a         *)
(* parameter with an enum is present with a value that is not in its enum; *)
(* otherwise it returns True.                                              *)
(***************************************************************************)
RequiredAbsent ==
    \E i \in 1..Len(satellite.parameters) :
        /\ satellite.parameters[i].required
        /\ satellite.parameters[i].name \notin DOMAIN call.parameters

NotInEnum ==
    \E i \in 1..Len(satellite.parameters) :
        /\ satellite.parameters[i].enum # None
        /\ satellite.parameters[i].name \in DOMAIN call.parameters
        /\ call.parameters[satellite.parameters[i].name]
               \notin Get(satellite.parameters[i].enum)

C22_RaisesIffInvalid ==
    (pc = "done" /\ last_call.op = "validate_parameters")
        => /\ (outcome.status = "raised"
                  /\ outcome.exc.type = "ParameterValidationError")
                 <=> (RequiredAbsent \/ NotInEnum)
           /\ ~(RequiredAbsent \/ NotInEnum) => outcome = Returned(<<"True">>)
           /\ satellite = last_call.satellite

(***************************************************************************)
(* C24: validate decides in the order protected path, dangerous command,   *)
(* rule action: a path hit gives the protected-path error whatever the     *)
(* command and the rule are; a command hit without a path hit gives the    *)
(* dangerous-command error; the confirmation callback is not called in a   *)
(* validate call in which one of the two checks fails or the rule action   *)
(* is ALLOW or DENY.                                                       *)
(***************************************************************************)
C24_ChecksInOrder ==
    ValidateCalled
        => /\ PathHit => ValidateRaised("Protected path detected")
           /\ (~PathHit /\ CommandHit) => ValidateRaised("Dangerous command detected")
           /\ (~PathHit /\ ~CommandHit /\ RuleAction = DENY)
                 => ValidateRaised("blocked due to safety level")
           /\ (PathHit \/ CommandHit \/ RuleAction \in {ALLOW, DENY})
                 => callback_calls = <<>> /\ ~Called("confirmation_callback")

\* a protected path, a dangerous command and a rule that denies, at once
C24_Witness ==
    /\ ValidateCalled /\ PathHit /\ CommandHit /\ RuleAction = DENY
    /\ ValidateRaised("Protected path detected")

\* a dangerous command alone under a rule that asks for confirmation, with a
\* callback at hand
C24_WitnessCommand ==
    /\ ValidateCalled /\ ~PathHit /\ CommandHit
    /\ RuleAction = REQUIRE_CONFIRMATION /\ safety_shield.confirmation_callback
    /\ ValidateRaised("Dangerous command detected")

(***************************************************************************)
(* C25: in one launch, parameter validation, the shield check with its     *)
(* confirmation callback, and template rendering each run at most once,    *)
(* however many times the retry loop runs the script; a                    *)
(* ParameterValidationError, ShieldError or TemplateRenderingError is what *)
(* the caller gets, and no execution attempt comes after it.               *)
(***************************************************************************)
PreExecutionErrors ==
    {"ParameterValidationError", "ShieldError", "TemplateRenderingError"}

C25_ChecksOncePerLaunch ==
    /\ Count("validate_parameters") <= 1
    /\ Count("safety_shield.validate") <= 1
    /\ Count("confirmation_callback") <= 1
    /\ Len(callback_calls) <= 1
    /\ Count("_render_template") <= 1
    /\ (runs # <<>>)
          => /\ Count("validate_parameters") = 1
             /\ Count("_render_template") = 1
             /\ outcome.exc.type \notin PreExecutionErrors
             /\ ~Called("validate raised")
    /\ (Called("validate_parameters")
            /\ validate_parameters(satellite, call.parameters) # NoError)
          => /\ pc = "done" /\ outcome.status = "raised"
             /\ outcome.exc.type = "ParameterValidationError"
    /\ Called("validate raised")
          => /\ pc = "done" /\ outcome.status = "raised"
             /\ outcome.exc.type = "ShieldError"
    /\ (Called("_render_template") /\ ~satellite.applescript_template.well_formed)
          => /\ pc = "done" /\ outcome.status = "raised"
             /\ outcome.exc.type = "TemplateRenderingError"

\* three execution attempts behind one validation, one confirmed shield check
\* and one rendering
C25_Witness ==
    /\ launcher.retry_on_failure /\ Len(runs) = 3
    /\ Count("validate_parameters") = 1
    /\ Count("safety_shield.validate") = 1
    /\ Len(callback_calls) = 1
    /\ Count("_render_template") = 1

\* a template that does not render, under a launcher that retries
C25_WitnessTemplate ==
    /\ launcher.retry_on_failure /\ launcher.max_retries = 3
    /\ pc = "done" /\ outcome.exc.type = "TemplateRenderingError"
    /\ runs = <<>>

(***************************************************************************)
(* C26: on a successful launch the satellite's result parser, if it has    *)
(* one, is applied once, to the trimmed stdout of the attempt that         *)
(* succeeded, and what it returns is the result of the launch; without a   *)
(* parser the trimmed stdout is the result; an exception of the parser     *)
(* goes to the caller and no execution attempt follows it.                 *)
(***************************************************************************)
C26_ParserAppliedOnce ==
    /\ Count("result_parser") <= 1
    /\ Called("result_parser")
          => /\ pc = "done"
             /\ runs # <<>> /\ ~Failed(runs[Len(runs)])
             /\ \A i \in 1..(Len(runs) - 1) : Failed(runs[i])
             /\ satellite.result_parser # "None"
    /\ (pc = "done" /\ runs # <<>> /\ ~Failed(runs[Len(runs)]))
          => LET trimmed == strip(runs[Len(runs)].stdout)
             IN /\ (satellite.result_parser = "None")
                      => ~Called("result_parser") /\ outcome = Returned(trimmed)
                /\ (satellite.result_parser = "parser")
                      => /\ Count("result_parser") = 1
                         /\ outcome = Returned(<<"parsed">> \o trimmed)
                /\ (satellite.result_parser = "raises")
                      => /\ Count("result_parser") = 1
                         /\ outcome.status = "raised"
                         /\ outcome.exc.type = "ValueError"

\* the parser applied to the trimmed output of the third attempt
C26_Witness ==
    /\ pc = "done" /\ Len(runs) = 3
    /\ runs[3].stdout = <<" ", "hello", "\n">>
    /\ satellite.result_parser = "parser"
    /\ outcome = Returned(<<"parsed", "hello">>)

\* the parser raised after the second attempt succeeded, and the launch ended
C26_WitnessRaises ==
    /\ pc = "done" /\ Len(runs) = 2 /\ launcher.max_retries = 3
    /\ satellite.result_parser = "raises"
    /\ outcome.exc.type = "ValueError"

(***************************************************************************)
(* C28: for every launcher, also with max_retries <= 0, a launch whose     *)
(* validation, shield check and rendering succeeded ends in one of two     *)
(* ways: it returns a result that a successful execution gave, or it       *)
(* raises an OrbitError of a failed execution; it does not end without an  *)
(* execution, nor with an error that is no OrbitError.                     *)
(***************************************************************************)
C28_EndsByExecution ==
    (pc = "done" /\ Called("_render_template")
        /\ outcome.exc.type # "TemplateRenderingError")
        => /\ runs # <<>>
           /\ \/ /\ outcome.status = "returned"
                 /\ ~Failed(runs[Len(runs)])
                 /\ outcome.value = ResultOf(runs[Len(runs)])
              \/ /\ outcome.status = "raised"
                 /\ outcome.exc.type \in OrbitErrors
                 /\ Failed(runs[Len(runs)])

(***************************************************************************)
(* C29: launch_async(satellite, parameters) does what                      *)
(* launch(satellite, parameters, bypass_shield=False) does: the shield     *)
(* check is not bypassed, and it ends with the result or the error of the  *)
(* synchronous call.                                                       *)
(***************************************************************************)
\* what the confirmation callback answered in this launch, if it was asked
Answer == IF callback_calls # <<>> THEN callback_calls[1].answer ELSE TRUE

C29_AsyncIsLaunchWithShield ==
    /\ (pc = "done" /\ last_call.op = "launch")
          => outcome = launch_result(launcher, satellite, call.parameters,
                                     call.bypass_shield, Answer, runs)
    /\ (pc # "idle" /\ last_call.op = "launch_async")
          => /\ ~call.bypass_shield
             /\ (launcher.safety_shield # "None" /\ Called("_render_template"))
                   => ValidateReturnedTrue
             /\ (pc = "done")
                   => outcome = launch_result(launcher, satellite, call.parameters,
                                              FALSE, Answer, runs)

\* an asynchronous launch that the shield refused
C29_Witness ==
    /\ pc = "done" /\ last_call.op = "launch_async"
    /\ outcome.status = "raised" /\ outcome.exc.type = "ShieldError"
    /\ satellite = critical_sat

\* an asynchronous launch that returned after a retry
C29_WitnessReturned ==
    /\ pc = "done" /\ last_call.op = "launch_async"
    /\ outcome.status = "returned" /\ Len(runs) = 2
    /\ Len(callback_calls) = 1

(***************************************************************************)
(* C30: register_constellation registers the satellites of the list one by *)
(* one in list order.  At the first element whose name is registered, by   *)
(* an earlier call or by an earlier element of the list, it raises         *)
(* ValueError; the elements before that one are registered, none from it   *)
(* onwards is, and the satellite map and the category index hold exactly   *)
(* these satellites, each category list extended in list order.            *)
(***************************************************************************)
\* the place of the first element of sats whose name is taken, Len(sats) + 1 if none
FirstTaken(sats) ==
    LET taken == {i \in 1..Len(sats) :
                     \/ sats[i].name \in DOMAIN _satellites
                     \/ \E j \in 1..(i - 1) : sats[j].name = sats[i].name}
    IN IF taken = {} THEN Len(sats) + 1
       ELSE CHOOSE i \in taken : \A j \in taken : i <= j

\* the names of the elements of sats of category c, in list order
RECURSIVE NamesOfCategory(_, _)
NamesOfCategory(sats, c) ==
    IF sats = <<>> THEN <<>>
    ELSE (IF Head(sats).category = c THEN <<Head(sats).name>> ELSE <<>>)
         \o NamesOfCategory(Tail(sats), c)

C30_ConstellationRegisteredInOrder ==
    [][(/\ pc = "idle" /\ pc' = "idle"
        /\ last_call'.op = "register_constellation")
          => LET sats == last_call'.satellites
                 k == FirstTaken(sats)
                 before == SubSeq(sats, 1, k - 1)
             IN /\ (k <= Len(sats)) <=> (last_call'.exc.type = "ValueError")
                /\ (k > Len(sats)) <=> (last_call'.exc = NoError)
                /\ DOMAIN _satellites' =
                      DOMAIN _satellites \cup {before[i].name : i \in 1..Len(before)}
                /\ \A n \in DOMAIN _satellites : _satellites'[n] = _satellites[n]
                /\ \A i \in 1..Len(before) : _satellites'[before[i].name] = before[i]
                /\ DOMAIN _categories' =
                      DOMAIN _categories \cup {before[i].category : i \in 1..Len(before)}
                /\ \A c \in DOMAIN _categories' :
                      _categories'[c] =
                         (IF c \in DOMAIN _categories THEN _categories[c] ELSE <<>>)
                         \o NamesOfCategory(before, c)]_vars

\* a list whose third element has the name of its first: two registered, then
\* ValueError
C30_Witness ==
    /\ last_call.op = "register_constellation"
    /\ last_call.satellites = <<safe_sat, moderate_sat, safe_sat_files>>
    /\ last_call.exc.type = "ValueError"
    /\ DOMAIN _satellites = {"safe_sat", "moderate_sat"}
    /\ registered_at["safe_sat"].time = 1
    /\ registered_at["moderate_sat"].time = 2

\* a list whose second element was registered by an earlier call
C30_WitnessEarlier ==
    /\ last_call.op = "register_constellation"
    /\ last_call.satellites = <<safe_sat, moderate_sat, safe_sat_files>>
    /\ last_call.exc.type = "ValueError"
    /\ DOMAIN _satellites = {"safe_sat", "moderate_sat"}
    /\ registered_at["moderate_sat"].time = 1
    /\ registered_at["safe_sat"].time = 2

(***************************************************************************)
(* C23: launches that run at the same time on one Launcher do not          *)
(* interfere.  Each call counts its own attempts, never more than          *)
(* max_retries processes, and it ends with what launch gives for its own   *)
(* satellite, its own parameters and the outcomes of its own processes,    *)
(* whatever the other call does in between.                                *)
(***************************************************************************)
C23_ConcurrentLaunchesIndependent ==
    \A t \in Threads :
       LET f == threads[t]
           answer == IF f.callback_calls # <<>> THEN f.callback_calls[1].answer
                     ELSE TRUE
       IN /\ Len(f.runs) <= launcher.max_retries
          /\ f.attempt <= Len(f.runs)
          /\ (f.pc = "execute") => f.attempt = Len(f.runs)
          /\ (f.pc = "done")
                => f.outcome = launch_result(launcher, f.satellite, f.call.parameters,
                                             f.call.bypass_shield, answer, f.runs)

\* two calls in their retry loops at once, one a failed attempt ahead
C23_Witness ==
    /\ threads["t1"].pc = "execute" /\ threads["t1"].attempt = 0
    /\ threads["t2"].pc = "execute" /\ threads["t2"].attempt = 1
    /\ threads["t1"].satellite # threads["t2"].satellite

\* two calls made at once that ended differently: one returned after a retry,
\* the other was refused by the callback
C23_WitnessEnded ==
    /\ threads["t1"].pc = "done" /\ threads["t1"].outcome.status = "returned"
    /\ Len(threads["t1"].runs) = 2
    /\ threads["t2"].pc = "done" /\ threads["t2"].outcome.status = "raised"
    /\ threads["t2"].outcome.exc.type = "ShieldError"

====
